---- MODULE Spec2Model ----
(***************************************************************************)
(* Planning poker: the session store (sessions, participants, stories),    *)
(* the client API of src/src/lib/supabase.ts that mutates it one request   *)
(* at a time, and the PokerSession / VotingDeck / StoryManager components  *)
(* that mirror one session and issue the mutations.                        *)
(*                                                                         *)
(* Every store request (one supabase.from(...) call) is one atomic step at *)
(* the store; an API function that awaits several requests is a process    *)
(* whose position is kept in call[c].  A client runs one API function at a *)
(* time; different clients interleave freely.                              *)
(***************************************************************************)
EXTENDS Integers, Sequences, FiniteSets, TLC

\* ------------------------------------------------------------------ bounds
\* Rows ever inserted (ids and timestamps are drawn from one sequence).
MaxSeq == 4
\* Change notifications of one table a client has not handled yet.
MaxPending == 1
\* User actions (card click, reveal, reset, move) taken in session views.
MaxClicks == 3
\* Stories a session holds.
MaxStories == 3

\* ------------------------------------------------------------ value domains
Clients == {"c1", "c2"}

\* SQL NULL of an id-valued column (session_id, current_story_id).
NoId == 0
\* SQL NULL of the vote column.
NoVote == "null"

\* Display names a user may type (case matters: "Bob" and "bob" differ).
Names == {"Bob", "bob"}
SessionNames == {"Sprint 1"}
\* Story titles typed in the add dialog (never blank: a blank title returns
\* from handleAddStory at once).
StoryTitles == {"A"}
\* The outcomes of the requests of a run in which no request fails.
NoFailure == {TRUE}

\* The codes createSession can generate (already upper-cased) and the codes a
\* user may type in the join form.
GenCodes == {"AB1", "CD2"}
TypedCodes == {"ab1", "CD2", "ZZ9"}

\* String.prototype.toUpperCase on the typed codes.
ToUpperCase(s) ==
    CASE s = "ab1" -> "AB1"
      [] OTHER -> s

VARIABLES
    sessions,       \* sessions table: id -> row
    participants,   \* participants table: id -> row
    stories,        \* stories table: id -> row
    seq,            \* rows inserted so far: source of gen_random_uuid() and NOW()
    call,           \* per client: the API function it is running and where
    mirror,         \* per client: the state of its PokerSession component
    feed,           \* per client: change notifications not yet handled
    fetched,        \* per client: re-fetch responses not yet applied
    clicks          \* user actions (and timer ticks) in session views so far

storeVars == <<sessions, participants, stories, seq>>
viewVars == <<mirror, feed, fetched, clicks>>
vars == <<sessions, participants, stories, seq, call, mirror, feed, fetched, clicks>>

\* ------------------------------------------------------------------- rows
SessionRow(id, code, name, organizer) ==
    [id |-> id, room_code |-> code, name |-> name, organizer_id |-> organizer,
     current_story_id |-> NoId, votes_revealed |-> FALSE,
     created_at |-> id, updated_at |-> id]

ParticipantRow(id, sid, name, organizer) ==
    [id |-> id, session_id |-> sid, name |-> name, is_organizer |-> organizer,
     has_voted |-> FALSE, vote |-> NoVote, joined_at |-> id, last_seen |-> id]

StoryRow(id, sid, title, index) ==
    [id |-> id, session_id |-> sid, title |-> title, status |-> "pending",
     order_index |-> index, created_at |-> id]

\* ------------------------------------------------------- store operations
\* insert(row).select().single() on a table: the row is added under its id.
Insert(table, row) == table @@ (row.id :> row)

\* The rows of participants that belong to session sid.
ParticipantsOf(ps, sid) == {p \in DOMAIN ps : ps[p].session_id = sid}

\* .eq("session_id", sid).eq("name", name)
NamedIn(ps, sid, name) == {p \in ParticipantsOf(ps, sid) : ps[p].name = name}

\* .eq("room_code", code)
SessionsByCode(ss, code) == {s \in DOMAIN ss : ss[s].room_code = code}

\* update({session_id}).eq("id", pid)
SetSessionId(ps, pid, sid) ==
    [p \in DOMAIN ps |->
        IF p = pid THEN [ps[p] EXCEPT !.session_id = sid] ELSE ps[p]]

\* ------------------------------------------------------- change feed
\* useState<Session | null>(null): no session row held.
NoSession == [id |-> NoId]
\* A client that is not in a session view.
NoMirror == [mounted |-> FALSE]
NoFeed == [sessions |-> <<>>, participants |-> 0, stories |-> 0]
NoFetched == [participants |-> {}, stories |-> {}, heartbeats |-> {}]

\* The subscription of PokerSession: filter id / session_id = sessionId.
Subscribed(c, sid) == mirror[c].mounted /\ mirror[c].sessionId = sid

Min(a, b) == IF a < b THEN a ELSE b

\* The last MaxPending elements of a sequence.
Recent(q) ==
    IF Len(q) <= MaxPending THEN q ELSE SubSeq(q, Len(q) - MaxPending + 1, Len(q))

\* An UPDATE of session row `row`: its new image goes to every subscriber.
WithSessionNote(f, row) ==
    [c \in Clients |->
        IF Subscribed(c, row.id)
        THEN [f[c] EXCEPT !.sessions = Recent(Append(@, row))]
        ELSE f[c]]

\* n row changes in the participants table of session sid: one notification
\* each to every subscriber (each triggers the same whole-set re-fetch).
WithParticipantNotes(f, sid, n) ==
    [c \in Clients |->
        IF Subscribed(c, sid)
        THEN [f[c] EXCEPT !.participants = Min(@ + n, MaxPending)]
        ELSE f[c]]

\* n row changes in the stories table of session sid.
WithStoryNotes(f, sid, n) ==
    [c \in Clients |->
        IF Subscribed(c, sid)
        THEN [f[c] EXCEPT !.stories = Min(@ + n, MaxPending)]
        ELSE f[c]]

\* .select("*").eq("session_id", sid).order("joined_at"): the rows of `ids`
\* as a list, earliest joined_at first.
RECURSIVE OrderByJoinedAt(_, _)
OrderByJoinedAt(ps, ids) ==
    IF ids = {} THEN <<>>
    ELSE LET first == CHOOSE i \in ids :
                         \A j \in ids : ps[i].joined_at <= ps[j].joined_at
         IN  <<ps[first]>> \o OrderByJoinedAt(ps, ids \ {first})

\* The stories of session sid.
StoriesOf(sts, sid) == {s \in DOMAIN sts : sts[s].session_id = sid}

\* ------------------------------------------- a fetch against the store
\* The rows of session sid in a store state: the session row, the
\* participants as .order("joined_at") lists them, the story rows.
View(ss, ps, sts, sid) ==
    [session |-> IF sid \in DOMAIN ss THEN ss[sid] ELSE NoSession,
     participants |-> OrderByJoinedAt(ps, ParticipantsOf(ps, sid)),
     stories |-> {sts[s] : s \in StoriesOf(sts, sid)}]

\* The reads getSessionData has got so far are the rows of view v.
Agrees(cl, v) ==
    /\ "session" \notin cl.pending => cl.session = v.session
    /\ "participants" \notin cl.pending => cl.participants = v.participants
    /\ "stories" \notin cl.pending =>
          /\ Len(cl.stories) = Cardinality(v.stories)
          /\ {cl.stories[i] : i \in DOMAIN cl.stories} = v.stories

\* Book-keeping, no part of the program: after a read, the store states
\* kept are those that hold the row(s) just read as well.
Read(cl) == [cl EXCEPT !.states = {v \in @ : Agrees(cl, v)}]

\* Book-keeping, no part of the program: a getSessionData under way keeps
\* the store states it has run through that hold every row it has read so
\* far.  The store has just become <<ss, ps, sts>>.
Seen(calls, ss, ps, sts) ==
    [d \in Clients |->
        IF calls[d].op = "load"
        THEN LET v == View(ss, ps, sts, calls[d].sessionId) IN
             IF Agrees(calls[d], v)
             THEN [calls[d] EXCEPT !.states = @ \cup {v}]
             ELSE calls[d]
        ELSE calls[d]]

\* ------------------------------------------------------------ API: idle
Idle == [op |-> "idle"]

\* What the caller of an API function is left with: the error it threw, or
\* the {session, participant} it returned.
Threw(op, error) == [op |-> op, pc |-> "threw", error |-> error]
Returned(op, sid, pid) ==
    [op |-> op, pc |-> "returned", session |-> sid, participant |-> pid]

\* ------------------------------------------------- createSession (3 steps)
\* Mutant: the organizer is inserted without the organizer flag.
OrganizerAsGuest(id, organizerName) == ParticipantRow(id, NoId, organizerName, FALSE)

\* The organizer row createSession inserts first: session_id null.
OrganizerRow(id, organizerName) == ParticipantRow(id, NoId, organizerName, TRUE)

\* home.tsx handleCreateSession -> createSession.  The room code is drawn,
\* then step 1: insert of the organizer row.  A request that fails (or that
\* the store refuses) throws "Failed to create organizer".
CreateOrganizer(c, oks) ==
    /\ call[c] = Idle
    /\ \E name \in SessionNames, organizerName \in Names, code \in GenCodes,
          ok \in oks :
          IF ok /\ seq < MaxSeq
          THEN /\ seq' = seq + 1
               /\ participants' =
                     Insert(participants, OrganizerRow(seq + 1, organizerName))
               /\ call' = [call EXCEPT ![c] =
                             [op |-> "create", pc |-> "session", name |-> name,
                              organizerName |-> organizerName,
                              roomCode |-> code, organizer |-> seq + 1,
                              session |-> NoId]]
          ELSE /\ call' = [call EXCEPT ![c] = Threw("create", "organizer")]
               /\ UNCHANGED <<participants, seq>>
    /\ UNCHANGED <<sessions, stories, viewVars>>

\* The organizer_id createSession writes into the new session row.
OrganizerIdFor(cl) == cl.organizer

\* Mutant: a failed step takes the organizer row back.
OrganizerRolledBack(ps, organizer) == [p \in DOMAIN ps \ {organizer} |-> ps[p]]

\* The participants table after step 2 or 3 failed: createSession throws
\* and issues no further request, the row of step 1 stays as inserted.
OrganizerLeft(ps, organizer) == ps

\* Mutant: the table takes any code.
AnyCode(ss, code) == TRUE

\* room_code TEXT UNIQUE NOT NULL: the table takes a row of this code.
CodeFree(ss, code) == SessionsByCode(ss, code) = {}

\* Step 2: insert of the session row.  room_code is UNIQUE: a code already
\* in the table makes the insert fail, "Failed to create session".
CreateSessionRow(c, oks) ==
    /\ call[c].op = "create" /\ call[c].pc = "session"
    /\ \E ok \in oks :
          IF /\ ok /\ seq < MaxSeq
             /\ CodeFree(sessions, call[c].roomCode)
          THEN /\ seq' = seq + 1
               /\ sessions' =
                     Insert(sessions,
                            SessionRow(seq + 1, call[c].roomCode, call[c].name,
                                       OrganizerIdFor(call[c])))
               /\ call' = [call EXCEPT ![c].pc = "patch", ![c].session = seq + 1]
               /\ UNCHANGED participants
          ELSE /\ call' = [call EXCEPT ![c] = Threw("create", "session")]
               /\ participants' = OrganizerLeft(participants, call[c].organizer)
               /\ UNCHANGED <<sessions, seq>>
    /\ UNCHANGED <<stories, viewVars>>

\* Step 3: the organizer row gets the session's id; createSession returns
\* {session, organizer}.
CreatePatch(c, oks) ==
    /\ call[c].op = "create" /\ call[c].pc = "patch"
    /\ \E ok \in oks :
          IF ok
          THEN /\ participants' =
                     SetSessionId(participants, call[c].organizer, call[c].session)
               /\ call' = Seen([call EXCEPT ![c] =
                                   Returned("create", call[c].session,
                                            call[c].organizer)],
                                sessions, participants', stories)
               /\ feed' = WithParticipantNotes(feed, call[c].session, 1)
          ELSE /\ call' = [call EXCEPT ![c] = Threw("create", "patch")]
               /\ participants' = OrganizerLeft(participants, call[c].organizer)
               /\ UNCHANGED feed
    /\ UNCHANGED <<sessions, stories, seq, mirror, fetched, clicks>>

\* ---------------------------------------------------- joinSession (3 steps)
\* Mutant: the lookup filters on the code as typed.
CodeAsTyped(roomCode) == roomCode

\* The code the lookup filters on.
LookupCode(roomCode) == ToUpperCase(roomCode)

\* The lookup of joinSession for one typed code, one name and one outcome
\* of the request.
JoinLookupOf(c, roomCode, participantName, ok) ==
    /\ call[c] = Idle
    /\ LET found == SessionsByCode(sessions, LookupCode(roomCode)) IN
       IF ok /\ Cardinality(found) = 1
       THEN call' = [call EXCEPT ![c] =
                       [op |-> "join", pc |-> "check",
                        participantName |-> participantName,
                        session |-> CHOOSE s \in found : TRUE,
                        checkError |-> "none"]]
       ELSE call' = [call EXCEPT ![c] = Threw("join", "not found")]
    /\ UNCHANGED <<storeVars, viewVars>>

\* home.tsx handleJoinSession -> joinSession.  Step 1: select the session by
\* room code, .single().  No row (or a failed request) throws "Session not
\* found".
JoinLookup(c, oks) ==
    \E roomCode \in TypedCodes, participantName \in Names, ok \in oks :
        JoinLookupOf(c, roomCode, participantName, ok)

\* What .single() hands back as data for a set of matching rows: the row
\* when exactly one matches, null (with error PGRST116) otherwise.
Single(rows) == IF Cardinality(rows) = 1 THEN rows ELSE {}

\* Step 2: the name check.  Its error is only logged: when the request
\* fails, existingParticipant is null and the join goes on.  A participant
\* found throws "A participant with this name already exists in the session".
JoinCheck(c, oks) ==
    /\ call[c].op = "join" /\ call[c].pc = "check"
    /\ \E ok \in oks :
          LET matching == NamedIn(participants, call[c].session,
                                  call[c].participantName)
              existingParticipant == IF ok THEN Single(matching) ELSE {}
              checkError ==
                 IF ~ok THEN "request failed"
                 ELSE IF Cardinality(matching) = 1 THEN "none" ELSE "PGRST116"
          IN  IF existingParticipant # {}
              THEN call' = [call EXCEPT ![c] = Threw("join", "name exists")]
              ELSE call' = [call EXCEPT ![c].pc = "insert",
                                        ![c].checkError = checkError]
    /\ UNCHANGED <<storeVars, viewVars>>

\* Mutant: a joiner is inserted with the organizer flag.
JoinerAsOrganizer(id, sid, participantName) ==
    ParticipantRow(id, sid, participantName, TRUE)

\* The row joinSession inserts.
JoinerRow(id, sid, participantName) == ParticipantRow(id, sid, participantName, FALSE)

\* Step 3: insert of the participant row; joinSession returns
\* {session, participant}.
JoinInsert(c, oks) ==
    /\ call[c].op = "join" /\ call[c].pc = "insert"
    /\ \E ok \in oks :
          IF ok /\ seq < MaxSeq
          THEN /\ seq' = seq + 1
               /\ participants' =
                     Insert(participants,
                            JoinerRow(seq + 1, call[c].session,
                                      call[c].participantName))
               /\ call' = Seen([call EXCEPT ![c] =
                                   Returned("join", call[c].session, seq + 1)],
                                sessions, participants', stories)
               /\ feed' = WithParticipantNotes(feed, call[c].session, 1)
          ELSE /\ call' = [call EXCEPT ![c] = Threw("join", "insert")]
               /\ UNCHANGED <<participants, seq, feed>>
    /\ UNCHANGED <<sessions, stories, mirror, fetched, clicks>>

\* home.tsx: the catch of handleCreateSession / handleJoinSession alerts the
\* error and leaves sessionState null: the user is back at the form.
Dismiss(c) ==
    /\ call[c].op \in {"create", "join"}
    /\ call[c].pc = "threw"
    /\ call' = [call EXCEPT ![c] = Idle]
    /\ UNCHANGED <<storeVars, viewVars>>

\* home.tsx handleLeaveSession: sessionState becomes null and the user is
\* back at the landing page; nothing is written to the store.
Leave(c) ==
    /\ call[c].op \in {"create", "join"}
    /\ call[c].pc = "returned"
    /\ ~mirror[c].mounted
    /\ call' = [call EXCEPT ![c] = Idle]
    /\ UNCHANGED <<storeVars, viewVars>>

NextLife ==
    \E c \in Clients :
        \/ CreateOrganizer(c, BOOLEAN)
        \/ CreateSessionRow(c, BOOLEAN)
        \/ CreatePatch(c, BOOLEAN)
        \/ JoinLookup(c, BOOLEAN)
        \/ JoinCheck(c, BOOLEAN)
        \/ JoinInsert(c, BOOLEAN)
        \/ Dismiss(c)
        \/ Leave(c)

\* ============================================================ voting round
\* The card deck of VotingDeck (a part of it: every card behaves alike).
cardValues == {"5", "8"}

\* What a fetch of the participants of session sid returns.
FetchParticipants(sid) ==
    OrderByJoinedAt(participants, ParticipantsOf(participants, sid))

\* Mutant: the vote is written without the has_voted flag.
UpdateVoteOnly(ps, pid, vote) ==
    [p \in DOMAIN ps |->
        IF p = pid THEN [ps[p] EXCEPT !.vote = vote] ELSE ps[p]]

\* update({vote, has_voted: true}).eq("id", pid)
UpdateVote(ps, pid, vote) ==
    [p \in DOMAIN ps |->
        IF p = pid THEN [ps[p] EXCEPT !.vote = vote, !.has_voted = TRUE]
        ELSE ps[p]]

\* Mutant: the reveal also stamps updated_at.
RevealAndTouch(ss, sid) ==
    [x \in DOMAIN ss |->
        IF x = sid
        THEN [ss[x] EXCEPT !.votes_revealed = TRUE, !.updated_at = @ + 1]
        ELSE ss[x]]

\* update({votes_revealed: true}).eq("id", sid)
RevealRows(ss, sid) ==
    [x \in DOMAIN ss |->
        IF x = sid THEN [ss[x] EXCEPT !.votes_revealed = TRUE] ELSE ss[x]]

\* Mutant: the reset leaves the session row as it is.
KeepRows(ss, sid) == ss

\* update({votes_revealed: false}).eq("id", sid)
HideRows(ss, sid) ==
    [x \in DOMAIN ss |->
        IF x = sid THEN [ss[x] EXCEPT !.votes_revealed = FALSE] ELSE ss[x]]

\* Mutant: the reset filters on id instead of session_id.
ClearVotesById(ps, sid) ==
    [p \in DOMAIN ps |->
        IF ps[p].id = sid
        THEN [ps[p] EXCEPT !.vote = NoVote, !.has_voted = FALSE]
        ELSE ps[p]]

\* update({vote: null, has_voted: false}).eq("session_id", sid)
ClearVotes(ps, sid) ==
    [p \in DOMAIN ps |->
        IF ps[p].session_id = sid
        THEN [ps[p] EXCEPT !.vote = NoVote, !.has_voted = FALSE]
        ELSE ps[p]]

\* PokerSession renders the deck and the handlers once loading is over and a
\* session row is held.
InSession(c) ==
    /\ mirror[c].mounted
    /\ ~mirror[c].loading
    /\ mirror[c].session # NoSession

\* const votesRevealed = session?.votes_revealed || false
votesRevealed(c) ==
    IF mirror[c].session = NoSession THEN FALSE
    ELSE mirror[c].session.votes_revealed

\* Mutant: the click handler does not look at `revealed`.
MayVoteRevealed(c) == ~mirror[c].isOrganizer

\* Mutant: the click handler does not look at `isOrganizer`.
MayVoteAsOrganizer(c) == ~votesRevealed(c)

\* VotingDeck handleCardClick: the guard under which a click casts a vote.
MayVote(c) == ~mirror[c].isOrganizer /\ ~votesRevealed(c)

\* handleCardClick -> handleVote: the card is remembered as selected and the
\* vote update is issued.
CardClick(c) ==
    /\ InSession(c) /\ call[c] = Idle
    /\ clicks < MaxClicks /\ clicks' = clicks + 1
    /\ MayVote(c)
    /\ \E value \in cardValues :
          /\ mirror' = [mirror EXCEPT ![c].selectedVote = value]
          /\ call' = [call EXCEPT ![c] =
                        [op |-> "vote", participantId |-> mirror[c].me,
                         vote |-> value]]
    /\ UNCHANGED <<storeVars, feed, fetched>>

\* A reset in flight that an update just applied by another call overtakes:
\* a reveal after the reset's session update, a vote after its participants
\* update (the store keeps the last write).
Overtaken(cl, what) ==
    IF cl.op = "reset" /\ cl[what] = "ok"
    THEN [cl EXCEPT !.overtaken = TRUE] ELSE cl

\* updateParticipantVote at the store.  An error is logged by handleVote and
\* nothing else happens.
VoteUpdate(c, oks) ==
    /\ call[c].op = "vote"
    /\ \E ok \in oks :
          LET pid == call[c].participantId IN
          IF ok /\ pid \in DOMAIN participants
          THEN /\ participants' = UpdateVote(participants, pid, call[c].vote)
               /\ feed' = WithParticipantNotes(feed, participants[pid].session_id, 1)
               /\ call' = Seen([d \in Clients |->
                                    IF d = c THEN Idle
                                    ELSE Overtaken(call[d], "participants")],
                                sessions, participants', stories)
          ELSE /\ call' = [call EXCEPT ![c] = Idle]
               /\ UNCHANGED <<participants, feed>>
    /\ UNCHANGED <<sessions, stories, seq, mirror, fetched, clicks>>

\* Mutant: every participant counts, the organizer included.
everyoneVoted(list) == \A i \in DOMAIN list : list[i].has_voted

\* participants.filter((p) => !p.is_organizer): the list without organizers.
nonOrganizers(list) == SelectSeq(list, LAMBDA p : ~p.is_organizer)

\* const allVoted = participants.filter(...).every((p) => p.has_voted),
\* computed at each render from the participants state.
allVoted(list) ==
    LET voters == nonOrganizers(list) IN
    \A i \in DOMAIN voters : voters[i].has_voted

\* handleRevealVotes: the reveal update is issued.
RevealClick(c) ==
    /\ InSession(c) /\ call[c] = Idle
    /\ clicks < MaxClicks /\ clicks' = clicks + 1
    /\ call' = [call EXCEPT ![c] =
                  [op |-> "reveal", sessionId |-> mirror[c].sessionId]]
    /\ UNCHANGED <<storeVars, mirror, feed, fetched>>

\* revealVotes at the store.
RevealUpdate(c, oks) ==
    /\ call[c].op = "reveal"
    /\ \E ok \in oks :
          LET sid == call[c].sessionId IN
          IF ok /\ sid \in DOMAIN sessions
          THEN /\ sessions' = RevealRows(sessions, sid)
               /\ feed' = WithSessionNote(feed, sessions'[sid])
               /\ call' = Seen([d \in Clients |->
                                    IF d = c THEN Idle
                                    ELSE Overtaken(call[d], "session")],
                                sessions', participants, stories)
          ELSE /\ call' = [call EXCEPT ![c] = Idle]
               /\ UNCHANGED <<sessions, feed>>
    /\ UNCHANGED <<participants, stories, seq, mirror, fetched, clicks>>

\* handleResetVotes: the selected card is dropped and resetVotes issues its
\* two updates together (Promise.all).
ResetClick(c) ==
    /\ InSession(c) /\ call[c] = Idle
    /\ clicks < MaxClicks /\ clicks' = clicks + 1
    /\ mirror' = [mirror EXCEPT ![c].selectedVote = NoVote]
    /\ call' = [call EXCEPT ![c] =
                  [op |-> "reset", sessionId |-> mirror[c].sessionId,
                   session |-> "pending", participants |-> "pending",
                   overtaken |-> FALSE, story |-> NoId]]
    /\ UNCHANGED <<storeVars, feed, fetched>>

\* resetVotes, first request: votes_revealed := false on the session row.
ResetSessionUpdate(c, oks) ==
    /\ call[c].op = "reset" /\ call[c].session = "pending"
    /\ \E ok \in oks :
          LET sid == call[c].sessionId IN
          IF ok
          THEN /\ sessions' = HideRows(sessions, sid)
               /\ feed' = WithSessionNote(feed, sessions'[sid])
               /\ call' = Seen([call EXCEPT ![c].session = "ok"],
                                sessions', participants, stories)
          ELSE /\ call' = [call EXCEPT ![c].session = "error"]
               /\ UNCHANGED <<sessions, feed>>
    /\ UNCHANGED <<participants, stories, seq, mirror, fetched, clicks>>

\* resetVotes, second request: vote and has_voted cleared on every row of
\* the session (one change notification per row).
ResetParticipantsUpdate(c, oks) ==
    /\ call[c].op = "reset" /\ call[c].participants = "pending"
    /\ \E ok \in oks :
          LET sid == call[c].sessionId IN
          IF ok
          THEN /\ participants' = ClearVotes(participants, sid)
               /\ feed' = WithParticipantNotes(feed, sid,
                              Cardinality(ParticipantsOf(participants, sid)))
               /\ call' = Seen([call EXCEPT ![c].participants = "ok"],
                                sessions, participants', stories)
          ELSE /\ call' = [call EXCEPT ![c].participants = "error"]
               /\ UNCHANGED <<participants, feed>>
    /\ UNCHANGED <<sessions, stories, seq, mirror, fetched, clicks>>

\* Mutant: only the session update's error is looked at.
ResetErrorOfSession(cl) == IF cl.session = "error" THEN "session" ELSE "none"

\* if (sessionUpdate.error) throw sessionUpdate.error;
\* if (participantsUpdate.error) throw participantsUpdate.error;
\* what resetVotes throws once both responses are in ("none": it returns).
ResetError(cl) ==
    IF cl.session = "error" THEN "session"
    ELSE IF cl.participants = "error" THEN "participants"
    ELSE "none"

\* Both responses are in: resetVotes returns, or throws the error of one;
\* handleResetVotes logs it.
ResetReturn(c) ==
    /\ call[c].op = "reset"
    /\ call[c].session # "pending" /\ call[c].participants # "pending"
    /\ call' = [call EXCEPT ![c] = Idle]
    /\ UNCHANGED <<storeVars, viewVars>>

\* ------------------------------------------------------- reconciliation
\* The notification of a deleted session row (it carries no new image).
Deleted(sid) == [id |-> sid, deleted |-> TRUE]

\* payload.eventType === "UPDATE"
IsUpdate(note) == "deleted" \notin DOMAIN note

\* Mutant: the new image is merged into the snapshot, votes_revealed kept.
MergedSnapshot(old, note) ==
    IF IsUpdate(note)
    THEN IF old = NoSession THEN note
         ELSE [note EXCEPT !.votes_revealed = old.votes_revealed]
    ELSE old

\* The sessions handler: if (payload.eventType === "UPDATE")
\* setSession(payload.new).
Snapshot(old, note) == IF IsUpdate(note) THEN note ELSE old

\* A notification of the session row is handled.
SessionNotified(c) ==
    /\ mirror[c].mounted
    /\ feed[c].sessions # <<>>
    /\ mirror' = [mirror EXCEPT
                    ![c].session = Snapshot(@, Head(feed[c].sessions))]
    /\ feed' = [feed EXCEPT ![c].sessions = Tail(@)]
    /\ UNCHANGED <<storeVars, call, fetched, clicks>>

\* Mutant: the fetched rows are merged into the local list, a row the list
\* already has is kept as it is.
KeepKnownRows(old, data) ==
    [i \in DOMAIN data |->
        IF \E j \in DOMAIN old : old[j].id = data[i].id
        THEN old[CHOOSE j \in DOMAIN old : old[j].id = data[i].id]
        ELSE data[i]]

\* if (data) setParticipants(data) / setStories(data): the list after the
\* response of a re-fetch.
Replaced(old, data) == data

\* Mutant: the handler falls back to an empty list (data || []).
RefetchOrEmpty(ok, answers) == IF ok THEN answers ELSE {<<>>}

\* const { data } = await supabase.from(...)...; if (data) set...(data):
\* the lists a re-fetch may hand to the setter, none when the request failed
\* (data is null).
Refetch(ok, answers) == IF ok THEN answers ELSE {}

\* Participant notification: the whole set is fetched again.  A failed
\* fetch has data null and changes nothing.  (One re-fetch of a table is
\* under way at a time: the next notification is handled after it.)
ParticipantsNotified(c, oks) ==
    /\ mirror[c].mounted
    /\ feed[c].participants > 0
    /\ fetched[c].participants = {}
    /\ feed' = [feed EXCEPT ![c].participants = @ - 1]
    /\ \E ok \in oks :
          LET answers == Refetch(ok, {FetchParticipants(mirror[c].sessionId)}) IN
          IF answers # {}
          THEN \E data \in answers :
                  fetched' = [fetched EXCEPT ![c].participants = @ \cup {data}]
          ELSE UNCHANGED fetched
    /\ UNCHANGED <<storeVars, call, mirror, clicks>>

\* The response of a re-fetch arrives: setParticipants(data).
ParticipantsFetched(c) ==
    /\ mirror[c].mounted
    /\ \E data \in fetched[c].participants :
          /\ mirror' = [mirror EXCEPT ![c].participants = Replaced(@, data)]
          /\ fetched' = [fetched EXCEPT ![c].participants = @ \ {data}]
    /\ UNCHANGED <<storeVars, call, feed, clicks>>

\* ================================================================ stories
\* .select("*").eq("session_id", sid).order("order_index"): the lists the
\* store may answer with.  Rows of equal order_index come in any order (the
\* query names no second sort key).
StoryOrders(sts, ids) ==
    LET n == Cardinality(ids) IN
    {[i \in 1..n |-> sts[g[i]]] :
        g \in {h \in [1..n -> ids] :
                 \A i, j \in 1..n :
                    i < j => /\ h[i] # h[j]
                             /\ sts[h[i]].order_index <= sts[h[j]].order_index}}

\* What a fetch of the stories of session sid may return.
FetchStories(sid) == StoryOrders(stories, StoriesOf(stories, sid))

\* Mutant: the new story gets the highest index itself.
NextOrderIndexSame(sts, ids, ok) ==
    IF ok /\ ids # {}
    THEN CHOOSE m \in {sts[s].order_index : s \in ids} :
            \A s \in ids : sts[s].order_index <= m
    ELSE 0

\* .select("order_index").order("order_index", {ascending: false}).limit(1)
\* and the index addStory derives from it: one past the highest, 0 when the
\* session has no story or the read failed (its error is not looked at).
NextOrderIndex(sts, ids, ok) ==
    IF ok /\ ids # {}
    THEN 1 + (CHOOSE m \in {sts[s].order_index : s \in ids} :
                 \A s \in ids : sts[s].order_index <= m)
    ELSE 0

\* handleAddStory -> addStory, first request: the read of the highest index.
\* The Add button is rendered for the organizer only.
AddStoryRead(c, oks) ==
    /\ InSession(c) /\ mirror[c].isOrganizer /\ call[c] = Idle
    /\ clicks < MaxClicks /\ clicks' = clicks + 1
    /\ Cardinality(DOMAIN stories) < MaxStories
    /\ \E title \in StoryTitles, ok \in oks :
          LET sid == mirror[c].sessionId IN
          call' = [call EXCEPT ![c] =
                     [op |-> "addStory", sessionId |-> sid, title |-> title,
                      nextOrderIndex |->
                         NextOrderIndex(stories, StoriesOf(stories, sid), ok)]]
    /\ UNCHANGED <<storeVars, mirror, feed, fetched>>

\* addStory, second request: the insert.  An error is thrown to
\* handleAddStory, which logs it.
AddStoryInsert(c, oks) ==
    /\ call[c].op = "addStory"
    /\ \E ok \in oks :
          IF ok
          THEN /\ seq' = seq + 1
               /\ stories' = Insert(stories,
                                StoryRow(seq + 1, call[c].sessionId,
                                         call[c].title, call[c].nextOrderIndex))
               /\ feed' = WithStoryNotes(feed, call[c].sessionId, 1)
          ELSE UNCHANGED <<stories, seq, feed>>
    /\ call' = Seen([call EXCEPT ![c] = Idle], sessions, participants, stories')
    /\ UNCHANGED <<sessions, participants, mirror, fetched, clicks>>

\* Array.prototype.findIndex on a list of rows by id (0-based, -1 if absent).
FindIndex(list, id) ==
    IF \E i \in DOMAIN list : list[i].id = id
    THEN (CHOOSE i \in DOMAIN list :
             /\ list[i].id = id
             /\ \A j \in DOMAIN list : list[j].id = id => i <= j) - 1
    ELSE -1

\* moveStory's early return: first story up, last story down.
MoveIsNoOp(list, index, direction) ==
    \/ direction = "up" /\ index = 0
    \/ direction = "down" /\ index = Len(list) - 1

\* The two updateStory calls of moveStory: each story gets the order_index
\* the other has in the local list.
UpdatesOfMove(list, index, direction) ==
    LET targetIndex == IF direction = "up" THEN index - 1 ELSE index + 1
        currentStory == list[index + 1]
        targetStory == list[targetIndex + 1]
    IN  [current |-> [id |-> currentStory.id,
                      order_index |-> targetStory.order_index],
         target |-> [id |-> targetStory.id,
                     order_index |-> currentStory.order_index]]

\* Mutant: a move that has no neighbour to swap with still writes the
\* story's own order_index back.
MoveRequestsAlways(list, id, direction) ==
    LET index == FindIndex(list, id)
        targetIndex == IF direction = "up" THEN index - 1 ELSE index + 1
    IN  IF index + 1 \notin DOMAIN list THEN {}
        ELSE IF targetIndex + 1 \in DOMAIN list
        THEN {UpdatesOfMove(list, index, direction)}
        ELSE {[current |-> [id |-> id, order_index |-> list[index + 1].order_index],
               target |-> [id |-> id, order_index |-> list[index + 1].order_index]]}

\* moveStory(id, direction) on the local list: the pairs of updateStory
\* requests it issues (none or one pair).  None after the early return; none
\* either when stories[index] or stories[targetIndex] is undefined (id not in
\* the list: index -1): reading .id / .order_index of undefined throws a
\* TypeError while the arguments of the first updateStory are evaluated,
\* inside the try, and the catch logs it.
MoveRequests(list, id, direction) ==
    LET index == FindIndex(list, id)
        targetIndex == IF direction = "up" THEN index - 1 ELSE index + 1
    IN  IF MoveIsNoOp(list, index, direction) THEN {}
        ELSE IF index + 1 \notin DOMAIN list \/ targetIndex + 1 \notin DOMAIN list
        THEN {}
        ELSE {UpdatesOfMove(list, index, direction)}

\* moveStory(id, direction) called by client c with an id of `ids`.  When it
\* issues its two updates they go out together (Promise.all).  `before`,
\* `fresh` and `position` record the store's stories at the call, whether
\* the local list was a list the store would answer with, and where the two
\* stories stood in the local list.
MoveCall(c, ids) ==
    /\ InSession(c) /\ mirror[c].isOrganizer /\ call[c] = Idle
    /\ clicks < MaxClicks /\ clicks' = clicks + 1
    /\ \E id \in ids, direction \in {"up", "down"} :
          LET list == mirror[c].stories
              index == FindIndex(list, id)
              requests == MoveRequests(list, id, direction)
          IN  IF requests = {}
              THEN UNCHANGED call
              ELSE \E updates \in requests :
                   call' = [call EXCEPT ![c] =
                      [op |-> "move", sessionId |-> mirror[c].sessionId,
                       updates |-> updates,
                       current |-> "pending", target |-> "pending",
                       position |->
                          [current |-> index,
                           target |-> IF direction = "up" THEN index - 1
                                      ELSE index + 1],
                       before |-> stories,
                       fresh |-> list \in FetchStories(mirror[c].sessionId)]]
    /\ UNCHANGED <<storeVars, mirror, feed, fetched>>

\* The ids of the rows of a list.
IdsIn(list) == {list[i].id : i \in DOMAIN list}

\* A click on an arrow of a story in the list (rendered for the organizer
\* only): moveStory(story.id, direction) for a story of the rendered list.
MoveClick(c) == MoveCall(c, IdsIn(mirror[c].stories))

\* moveStory taken as a function: called with the id of any story of the
\* store or of the local list, or with an id no story has.
MoveAny(c) ==
    MoveCall(c, IdsIn(mirror[c].stories) \cup DOMAIN stories \cup {NoId})

\* update({order_index}).eq("id", id): no row matched is no error.
SetOrderIndex(sts, id, index) ==
    [s \in DOMAIN sts |->
        IF s = id THEN [sts[s] EXCEPT !.order_index = index] ELSE sts[s]]

\* One of the two updateStory requests of a move (which = "current" or
\* "target") at the store.
MoveUpdate(c, which, oks) ==
    /\ call[c].op = "move" /\ call[c][which] = "pending"
    /\ \E ok \in oks :
          LET update == call[c].updates[which] IN
          IF ok
          THEN /\ stories' = SetOrderIndex(stories, update.id, update.order_index)
               /\ feed' = IF update.id \in DOMAIN stories
                          THEN WithStoryNotes(feed, call[c].sessionId, 1)
                          ELSE feed
               /\ call' = Seen([call EXCEPT ![c][which] = "ok"],
                                sessions, participants, stories')
          ELSE /\ call' = [call EXCEPT ![c][which] = "error"]
               /\ UNCHANGED <<stories, feed>>
    /\ UNCHANGED <<sessions, participants, seq, mirror, fetched, clicks>>

MoveCurrentUpdate(c, oks) == MoveUpdate(c, "current", oks)
MoveTargetUpdate(c, oks) == MoveUpdate(c, "target", oks)

\* Both responses are in: moveStory is over (an error is logged).
MoveReturn(c) ==
    /\ call[c].op = "move"
    /\ call[c].current # "pending" /\ call[c].target # "pending"
    /\ call' = [call EXCEPT ![c] = Idle]
    /\ UNCHANGED <<storeVars, viewVars>>

\* A click on the delete button of a story in the list (rendered for the
\* organizer only): handleDeleteStory(id) issues deleteStory.
DeleteClick(c) ==
    /\ InSession(c) /\ mirror[c].isOrganizer /\ call[c] = Idle
    /\ clicks < MaxClicks /\ clicks' = clicks + 1
    /\ \E i \in DOMAIN mirror[c].stories :
          call' = [call EXCEPT ![c] =
                     [op |-> "delete", sessionId |-> mirror[c].sessionId,
                      storyId |-> mirror[c].stories[i].id]]
    /\ UNCHANGED <<storeVars, mirror, feed, fetched>>

\* delete().eq("id", id)
DeleteRow(sts, id) == [s \in DOMAIN sts \ {id} |-> sts[s]]

\* deleteStory at the store: no row matched is no error.  An error is
\* logged by handleDeleteStory.
DeleteUpdate(c, oks) ==
    /\ call[c].op = "delete"
    /\ \E ok \in oks :
          IF ok
          THEN /\ stories' = DeleteRow(stories, call[c].storyId)
               /\ feed' = IF call[c].storyId \in DOMAIN stories
                          THEN WithStoryNotes(feed, call[c].sessionId, 1)
                          ELSE feed
          ELSE UNCHANGED <<stories, feed>>
    /\ call' = Seen([call EXCEPT ![c] = Idle], sessions, participants, stories')
    /\ UNCHANGED <<sessions, participants, seq, mirror, fetched, clicks>>

\* Story notification: the whole list is fetched again.  A failed fetch has
\* data null and changes nothing.
StoriesNotified(c, oks) ==
    /\ mirror[c].mounted
    /\ feed[c].stories > 0
    /\ fetched[c].stories = {}
    /\ feed' = [feed EXCEPT ![c].stories = @ - 1]
    /\ \E ok \in oks :
          LET answers == Refetch(ok, FetchStories(mirror[c].sessionId)) IN
          IF answers # {}
          THEN \E data \in answers :
                  fetched' = [fetched EXCEPT ![c].stories = @ \cup {data}]
          ELSE UNCHANGED fetched
    /\ UNCHANGED <<storeVars, call, mirror, clicks>>

\* The response of a re-fetch arrives: setStories(data).
StoriesFetched(c) ==
    /\ mirror[c].mounted
    /\ \E data \in fetched[c].stories :
          /\ mirror' = [mirror EXCEPT ![c].stories = Replaced(@, data)]
          /\ fetched' = [fetched EXCEPT ![c].stories = @ \ {data}]
    /\ UNCHANGED <<storeVars, call, feed, clicks>>

\* ------------------------------------------------------ story navigation
\* Mutant: the current story is not written.
KeepCurrentStory(ss, sid, storyId) == ss

\* update({current_story_id: storyId}).eq("id", sid)
SetCurrentStory(ss, sid, storyId) ==
    [x \in DOMAIN ss |->
        IF x = sid THEN [ss[x] EXCEPT !.current_story_id = storyId] ELSE ss[x]]

\* const currentStory = stories[currentStoryIndex]; currentStory?.id: the
\* id of the story shown as current, none when the list has no such place.
currentStoryId(c) ==
    IF mirror[c].currentStoryIndex + 1 \in DOMAIN mirror[c].stories
    THEN mirror[c].stories[mirror[c].currentStoryIndex + 1].id
    ELSE NoId

\* The index a navigation goes to: handleNextStory and handlePrevStory step
\* from the local current index when their guard holds, onSelectStory goes
\* to the index of the clicked story of the rendered list.
NavigationTargets(c) ==
    LET list == mirror[c].stories
        index == mirror[c].currentStoryIndex
    IN  (IF index < Len(list) - 1 THEN {index + 1} ELSE {})
        \cup (IF index > 0 THEN {index - 1} ELSE {})
        \cup {FindIndex(list, id) : id \in IdsIn(list)}

\* handleNextStory / handlePrevStory / onSelectStory (rendered for every
\* participant): the local index is set and updateCurrentStory is issued for
\* the story at that index.  When the list has no story there (a local
\* index beyond a list that shrank), reading its id throws and nothing is
\* issued.
AdvanceClick(c) ==
    /\ InSession(c) /\ call[c] = Idle
    /\ clicks < MaxClicks /\ clicks' = clicks + 1
    /\ \E target \in NavigationTargets(c) :
          /\ mirror' = [mirror EXCEPT ![c].currentStoryIndex = target]
          /\ IF target + 1 \in DOMAIN mirror[c].stories
             THEN call' = [call EXCEPT ![c] =
                             [op |-> "advance", sessionId |-> mirror[c].sessionId,
                              storyId |-> mirror[c].stories[target + 1].id]]
             ELSE UNCHANGED call
    /\ UNCHANGED <<storeVars, feed, fetched>>

\* An advance in flight whose current story another client's advance just
\* overwrote (the store keeps the last write).
OvertakenStory(cl) ==
    IF cl.op = "reset" /\ cl.story # NoId
    THEN [cl EXCEPT !.overtaken = TRUE] ELSE cl

\* updateCurrentStory at the store, awaited.  On success the handler goes on
\* with handleResetVotes: the selected card is dropped and resetVotes issues
\* its two updates.  On an error updateCurrentStory throws, the handler has
\* no catch and ends there: no reset is issued.
AdvanceUpdate(c, oks) ==
    /\ call[c].op = "advance"
    /\ \E ok \in oks :
          LET sid == call[c].sessionId IN
          IF ok
          THEN /\ sessions' = SetCurrentStory(sessions, sid, call[c].storyId)
               /\ feed' = IF sid \in DOMAIN sessions
                          THEN WithSessionNote(feed, sessions'[sid]) ELSE feed
               /\ mirror' = [mirror EXCEPT ![c].selectedVote = NoVote]
               /\ call' = Seen([d \in Clients |->
                                    IF d = c
                                    THEN [op |-> "reset", sessionId |-> sid,
                                          session |-> "pending",
                                          participants |-> "pending",
                                          overtaken |-> FALSE,
                                          story |-> call[c].storyId]
                                    ELSE OvertakenStory(call[d])],
                                sessions', participants, stories)
          ELSE /\ call' = [call EXCEPT ![c] = Idle]
               /\ UNCHANGED <<sessions, feed, mirror>>
    /\ UNCHANGED <<participants, stories, seq, fetched, clicks>>

\* ================================================= entering a session view
\* home.tsx: createSession / joinSession returned, sessionState is set and
\* PokerSession mounts: its state is the useState defaults, the subscription
\* is set up and getSessionData issues its three reads together.
Mount(c) ==
    /\ call[c].op \in {"create", "join"}
    /\ call[c].pc = "returned"
    /\ ~mirror[c].mounted
    /\ mirror' = [mirror EXCEPT ![c] =
                    [mounted |-> TRUE, sessionId |-> call[c].session,
                     me |-> call[c].participant,
                     isOrganizer |->
                        IF call[c].participant \in DOMAIN participants
                        THEN participants[call[c].participant].is_organizer
                        ELSE call[c].op = "create",
                     loading |-> TRUE, session |-> NoSession,
                     participants |-> <<>>, stories |-> <<>>,
                     currentStoryIndex |-> 0, selectedVote |-> NoVote]]
    /\ call' = [call EXCEPT ![c] =
                  [op |-> "load", sessionId |-> call[c].session,
                   pending |-> {"session", "participants", "stories"},
                   session |-> NoSession, participants |-> <<>>,
                   stories |-> <<>>,
                   states |-> {View(sessions, participants, stories,
                                    call[c].session)}]]
    /\ UNCHANGED <<storeVars, feed, fetched, clicks>>

\* getSessionData: the read of the session row, .single(); data is null when
\* the request fails or no row matches.
LoadSession(c, oks) ==
    /\ call[c].op = "load" /\ "session" \in call[c].pending
    /\ \E ok \in oks :
          call' = [call EXCEPT ![c] = Read(
                     [@ EXCEPT
                        !.pending = @ \ {"session"},
                        !.session =
                           IF ok /\ call[c].sessionId \in DOMAIN sessions
                           THEN sessions[call[c].sessionId] ELSE NoSession])]
    /\ UNCHANGED <<storeVars, viewVars>>

\* getSessionData: the read of the participants (data || []).
LoadParticipants(c, oks) ==
    /\ call[c].op = "load" /\ "participants" \in call[c].pending
    /\ \E ok \in oks :
          call' = [call EXCEPT ![c] = Read(
                     [@ EXCEPT
                        !.pending = @ \ {"participants"},
                        !.participants =
                           IF ok THEN FetchParticipants(call[c].sessionId)
                           ELSE <<>>])]
    /\ UNCHANGED <<storeVars, viewVars>>

\* getSessionData: the read of the stories (data || []).
LoadStories(c, oks) ==
    /\ call[c].op = "load" /\ "stories" \in call[c].pending
    /\ \E ok \in oks :
          \E data \in IF ok THEN FetchStories(call[c].sessionId) ELSE {<<>>} :
             call' = [call EXCEPT ![c] = Read(
                        [@ EXCEPT !.pending = @ \ {"stories"},
                                  !.stories = data])]
    /\ UNCHANGED <<storeVars, viewVars>>

\* loadSessionData once the three reads are in: session, participants and
\* stories are set; the current story index is set when the session row
\* names a story of the list (a null session row throws there, after the
\* three setters); loading ends.
\* Mutant: setLoading(false) is the last statement of the try block, which
\* the TypeError on a null session row skips.
LoadingAfterTry(data) == data.session = NoSession

\* finally { setLoading(false) }
LoadingAfter(data) == FALSE

LoadApply(c) ==
    /\ call[c].op = "load" /\ call[c].pending = {}
    /\ LET data == call[c]
           storyIndex == IF data.session = NoSession THEN -1
                         ELSE FindIndex(data.stories, data.session.current_story_id)
       IN  mirror' = [mirror EXCEPT
                        ![c].session = data.session,
                        ![c].participants = data.participants,
                        ![c].stories = data.stories,
                        ![c].currentStoryIndex =
                           IF storyIndex >= 0 THEN storyIndex ELSE @,
                        ![c].loading = LoadingAfter(data)]
    /\ call' = [call EXCEPT ![c] = Idle]
    /\ UNCHANGED <<storeVars, feed, fetched, clicks>>

\* ------------------------------------------------- a session that is gone
\* The program deletes no session.  A row deleted in the database takes the
\* session's participants and stories with it (ON DELETE CASCADE).  Whether
\* the subscribers of the session hear of the deleted rows is left open.
SessionGone ==
    \E sid \in DOMAIN sessions, notified \in BOOLEAN :
        /\ sessions' = [x \in DOMAIN sessions \ {sid} |-> sessions[x]]
        /\ participants' =
              [p \in DOMAIN participants \ ParticipantsOf(participants, sid) |->
                  participants[p]]
        /\ stories' = [x \in DOMAIN stories \ StoriesOf(stories, sid) |->
                          stories[x]]
        /\ feed' = IF notified
                   THEN WithSessionNote(
                           WithStoryNotes(WithParticipantNotes(feed, sid, 1),
                                          sid, 1),
                           Deleted(sid))
                   ELSE feed
        /\ call' = Seen(call, sessions', participants', stories')
        /\ UNCHANGED <<seq, mirror, fetched, clicks>>

\* ------------------------------------------------- heartbeat and detach
\* update({last_seen: ...}).eq("id", pid)
SetLastSeen(ps, pid, at) ==
    [p \in DOMAIN ps |->
        IF p = pid THEN [ps[p] EXCEPT !.last_seen = at] ELSE ps[p]]

\* The interval of the subscription effect fires (time has passed):
\* updateParticipantLastSeen(currentParticipant.id) is called with the
\* time of the tick and not awaited.  The interval exists from the mount of
\* the view to its unmount.
HeartbeatTick(c) ==
    /\ mirror[c].mounted
    /\ clicks < MaxClicks /\ clicks' = clicks + 1
    /\ Cardinality(fetched[c].heartbeats) < MaxPending
    /\ seq' = seq + 1
    /\ fetched' = [fetched EXCEPT ![c].heartbeats =
                      @ \cup {[id |-> mirror[c].me, last_seen |-> seq + 1]}]
    /\ UNCHANGED <<sessions, participants, stories, call, mirror, feed>>

\* updateParticipantLastSeen at the store.  On an error it throws; nobody
\* awaits or catches it (the rejection is reported by the runtime) and
\* nothing else happens.
\* Mutant: the rejection takes the view down.
ViewCrashed(m) == NoMirror

\* The view after a heartbeat was rejected: the promise is neither awaited
\* nor caught, no state is set.
ViewAfterRejection(m) == m

HeartbeatUpdate(c, oks) ==
    /\ \E hb \in fetched[c].heartbeats, ok \in oks :
          /\ fetched' = [fetched EXCEPT ![c].heartbeats = @ \ {hb}]
          /\ IF ok /\ hb.id \in DOMAIN participants
             THEN /\ participants' = SetLastSeen(participants, hb.id, hb.last_seen)
                  /\ feed' = WithParticipantNotes(
                                feed, participants[hb.id].session_id, 1)
                  /\ call' = Seen(call, sessions, participants', stories)
                  /\ UNCHANGED mirror
             ELSE /\ mirror' = [mirror EXCEPT ![c] =
                                  IF ok THEN @ ELSE ViewAfterRejection(@)]
                  /\ UNCHANGED <<participants, feed, call>>
    /\ UNCHANGED <<sessions, stories, seq, clicks>>

\* Mutant: leaving cancels the heartbeats under way.
HeartbeatsDropped(hbs) == {}

\* The heartbeats a view has in flight when it unmounts: clearInterval stops
\* the ticks to come, nothing cancels a request.
HeartbeatsKept(hbs) == hbs

\* home.tsx handleLeaveSession with the session view on screen:
\* sessionState becomes null, PokerSession unmounts and the cleanup of the
\* subscription effect runs (unsubscribe, clearInterval).  Notifications
\* not yet handled and responses of re-fetches are for a view that is no
\* more.  With no session view on screen nothing changes.
Detach(c) ==
    /\ mirror[c].mounted => clicks < MaxClicks
    /\ clicks' = IF mirror[c].mounted THEN clicks + 1 ELSE clicks
    /\ mirror' = [mirror EXCEPT ![c] = NoMirror]
    /\ feed' = [feed EXCEPT ![c] = NoFeed]
    /\ fetched' = [fetched EXCEPT ![c] =
                      [NoFetched EXCEPT
                         !.heartbeats = HeartbeatsKept(fetched[c].heartbeats)]]
    /\ UNCHANGED call
    /\ UNCHANGED storeVars

\* ------------------------------------------------------------ the view
\* JavaScript truthiness of a vote column value.
Truthy(vote) == vote # NoVote /\ vote # ""

\* Mutant: the badge shows the vote whenever there is one.
BadgeUngated(c, row) ==
    IF Truthy(row.vote)
    THEN [kind |-> "vote", text |-> row.vote]
    ELSE [kind |-> "mark", text |-> IF row.has_voted THEN "voted" ELSE "open"]

\* Participant list badge: {votesRevealed && participant.vote ? vote : mark}.
Badge(c, row) ==
    IF votesRevealed(c) /\ Truthy(row.vote)
    THEN [kind |-> "vote", text |-> row.vote]
    ELSE [kind |-> "mark", text |-> IF row.has_voted THEN "voted" ELSE "open"]

\* Results panel, rendered only when votesRevealed, one tile per
\* non-organizer: has_voted ? vote || "?" : "-".
ResultTiles(c) ==
    IF votesRevealed(c)
    THEN {[id |-> mirror[c].participants[i].id,
           kind |-> IF mirror[c].participants[i].has_voted
                       /\ Truthy(mirror[c].participants[i].vote)
                    THEN "vote" ELSE "mark",
           text |-> IF mirror[c].participants[i].has_voted
                    THEN IF Truthy(mirror[c].participants[i].vote)
                         THEN mirror[c].participants[i].vote ELSE "?"
                    ELSE "-"] :
             i \in {k \in DOMAIN mirror[c].participants :
                       ~mirror[c].participants[k].is_organizer}}
    ELSE {}

\* The participants whose vote value client c has on screen.
ShownVotes(c) ==
    IF ~InSession(c) THEN {}
    ELSE {mirror[c].participants[i].id :
             i \in {k \in DOMAIN mirror[c].participants :
                       Badge(c, mirror[c].participants[k]).kind = "vote"}}
         \cup {t.id : t \in {u \in ResultTiles(c) : u.kind = "vote"}}

\* --------------------------------------------------- voting specification
\* A session in its collecting state with everybody in the room: "Bob"
\* created it on c1 (rows 1 and 2), "bob" joined on c2 (row 3), both session
\* views have loaded and no request or notification is under way.
VoteSession == 2
VoteStore ==
    [sessions |-> (2 :> SessionRow(2, "AB1", "Sprint 1", 1)),
     participants |-> (1 :> ParticipantRow(1, 2, "Bob", TRUE))
                      @@ (3 :> ParticipantRow(3, 2, "bob", FALSE))]

Mounted(me, organizer, session, list, storyList) ==
    [mounted |-> TRUE, sessionId |-> session.id, me |-> me,
     isOrganizer |-> organizer, loading |-> FALSE, session |-> session,
     participants |-> list, stories |-> storyList,
     currentStoryIndex |-> 0, selectedVote |-> NoVote]

InitVote ==
    /\ sessions = VoteStore.sessions
    /\ participants = VoteStore.participants
    /\ stories = <<>>
    /\ seq = 3
    /\ call = [c \in Clients |-> Idle]
    /\ mirror = [c \in Clients |->
                   Mounted(IF c = "c1" THEN 1 ELSE 3, c = "c1",
                           VoteStore.sessions[VoteSession],
                           OrderByJoinedAt(VoteStore.participants, {1, 3}),
                           <<>>)]
    /\ feed = [c \in Clients |-> NoFeed]
    /\ fetched = [c \in Clients |-> NoFetched]
    /\ clicks = 0

NextVote ==
    \E c \in Clients :
        \/ CardClick(c)
        \/ VoteUpdate(c, BOOLEAN)
        \/ RevealClick(c)
        \/ RevealUpdate(c, BOOLEAN)
        \/ ResetClick(c)
        \/ ResetSessionUpdate(c, BOOLEAN)
        \/ ResetParticipantsUpdate(c, BOOLEAN)
        \/ ResetReturn(c)
        \/ SessionNotified(c)
        \/ ParticipantsNotified(c, BOOLEAN)
        \/ ParticipantsFetched(c)

SpecVote == InitVote /\ [][NextVote]_vars

\* The same round with no request failing.
NextRound ==
    \E c \in Clients :
        \/ CardClick(c)
        \/ VoteUpdate(c, NoFailure)
        \/ RevealClick(c)
        \/ RevealUpdate(c, NoFailure)
        \/ ResetClick(c)
        \/ ResetSessionUpdate(c, NoFailure)
        \/ ResetParticipantsUpdate(c, NoFailure)
        \/ ResetReturn(c)
        \/ SessionNotified(c)
        \/ ParticipantsNotified(c, NoFailure)
        \/ ParticipantsFetched(c)

SpecRound == InitVote /\ [][NextRound]_vars

\* The round as the store sees it, with either update of a reset free to
\* fail: votes, reveals and resets, the session row kept up to date in the
\* views (the participant lists are not re-fetched).
NextReset ==
    \E c \in Clients :
        \/ CardClick(c)
        \/ VoteUpdate(c, NoFailure)
        \/ RevealClick(c)
        \/ RevealUpdate(c, NoFailure)
        \/ ResetClick(c)
        \/ ResetSessionUpdate(c, BOOLEAN)
        \/ ResetParticipantsUpdate(c, BOOLEAN)
        \/ ResetReturn(c)
        \/ SessionNotified(c)

SpecReset == InitVote /\ [][NextReset]_vars

Init ==
    /\ sessions = <<>>
    /\ participants = <<>>
    /\ stories = <<>>
    /\ seq = 0
    /\ call = [c \in Clients |-> Idle]
    /\ mirror = [c \in Clients |-> NoMirror]
    /\ feed = [c \in Clients |-> NoFeed]
    /\ fetched = [c \in Clients |-> NoFetched]
    /\ clicks = 0

SpecLife == Init /\ [][NextLife]_vars

\* The same forms with no request failing: creations and joins of the two
\* clients interleave request by request.
NextEntry ==
    \E c \in Clients :
        \/ CreateOrganizer(c, NoFailure)
        \/ CreateSessionRow(c, NoFailure)
        \/ CreatePatch(c, NoFailure)
        \/ JoinLookup(c, NoFailure)
        \/ JoinCheck(c, NoFailure)
        \/ JoinInsert(c, NoFailure)
        \/ Dismiss(c)
        \/ Leave(c)

SpecEntry == Init /\ [][NextEntry]_vars

\* ------------------------------------------------- one thing after another
\* Nothing is under way: no API function is running, every notification has
\* been handled and every re-fetch applied.
Quiet ==
    \A c \in Clients :
        call[c] = Idle /\ feed[c] = NoFeed /\ fetched[c] = NoFetched

\* The users take turns: a form is submitted or a button clicked only when
\* nothing is under way; what was begun runs to its end, a session view
\* loading included.
NextSeq ==
    \E c \in Clients :
        \/ Quiet /\ CreateOrganizer(c, NoFailure)
        \/ Quiet /\ JoinLookup(c, NoFailure)
        \/ Quiet /\ CardClick(c)
        \/ Quiet /\ RevealClick(c)
        \/ Quiet /\ ResetClick(c)
        \/ CreateSessionRow(c, NoFailure)
        \/ CreatePatch(c, NoFailure)
        \/ JoinCheck(c, NoFailure)
        \/ JoinInsert(c, NoFailure)
        \/ Dismiss(c)
        \/ Mount(c)
        \/ LoadSession(c, NoFailure)
        \/ LoadParticipants(c, NoFailure)
        \/ LoadStories(c, NoFailure)
        \/ LoadApply(c)
        \/ VoteUpdate(c, NoFailure)
        \/ RevealUpdate(c, NoFailure)
        \/ ResetSessionUpdate(c, NoFailure)
        \/ ResetParticipantsUpdate(c, NoFailure)
        \/ ResetReturn(c)
        \/ SessionNotified(c)
        \/ ParticipantsNotified(c, NoFailure)
        \/ ParticipantsFetched(c)

SpecSeq == Init /\ [][NextSeq]_vars

\* ---------------------------------------------------- story specification
\* The session of VoteStore with two stories added one after the other, the
\* organizer's session view loaded (the joiner is back at the landing page)
\* and nothing under way; no request fails.
StoryStore == (4 :> StoryRow(4, VoteSession, "A", 0))
              @@ (5 :> StoryRow(5, VoteSession, "A", 1))

InitStory ==
    /\ sessions = VoteStore.sessions
    /\ participants = VoteStore.participants
    /\ stories = StoryStore
    /\ seq = 5
    /\ call = [c \in Clients |-> Idle]
    /\ mirror = [c \in Clients |->
                   IF c = "c1"
                   THEN Mounted(1, TRUE, VoteStore.sessions[VoteSession],
                                OrderByJoinedAt(VoteStore.participants, {1, 3}),
                                <<StoryStore[4], StoryStore[5]>>)
                   ELSE NoMirror]
    /\ feed = [c \in Clients |-> NoFeed]
    /\ fetched = [c \in Clients |-> NoFetched]
    /\ clicks = 0

NextStory ==
    \E c \in Clients :
        \/ AddStoryRead(c, NoFailure)
        \/ AddStoryInsert(c, NoFailure)
        \/ MoveClick(c)
        \/ MoveCurrentUpdate(c, NoFailure)
        \/ MoveTargetUpdate(c, NoFailure)
        \/ MoveReturn(c)
        \/ DeleteClick(c)
        \/ DeleteUpdate(c, NoFailure)
        \/ StoriesNotified(c, NoFailure)
        \/ StoriesFetched(c)

SpecStory == InitStory /\ [][NextStory]_vars

\* --------------------------------------------------- adding and deleting
\* From the same state: stories are added and deleted, none is moved, no
\* request fails.
NextAdd ==
    \E c \in Clients :
        \/ AddStoryRead(c, NoFailure)
        \/ AddStoryInsert(c, NoFailure)
        \/ DeleteClick(c)
        \/ DeleteUpdate(c, NoFailure)
        \/ StoriesNotified(c, NoFailure)
        \/ StoriesFetched(c)

SpecAdd == InitStory /\ [][NextAdd]_vars

\* ------------------------------------------------------ story navigation
\* The session of VoteStore with the two stories of StoryStore, the joiner's
\* vote "5" cast and revealed, both session views loaded, nothing under way.
\* Either user navigates and the joiner votes; of all requests only
\* updateCurrentStory may fail.  Participant notifications stay undelivered:
\* no handler of this specification reads the local participant list.
AdvanceStore ==
    [sessions |-> RevealRows(VoteStore.sessions, VoteSession),
     participants |-> UpdateVote(VoteStore.participants, 3, "5")]

InitAdvance ==
    /\ sessions = AdvanceStore.sessions
    /\ participants = AdvanceStore.participants
    /\ stories = StoryStore
    /\ seq = 5
    /\ call = [c \in Clients |-> Idle]
    /\ mirror = [c \in Clients |->
                   [Mounted(IF c = "c1" THEN 1 ELSE 3, c = "c1",
                            AdvanceStore.sessions[VoteSession],
                            OrderByJoinedAt(AdvanceStore.participants, {1, 3}),
                            <<StoryStore[4], StoryStore[5]>>)
                       EXCEPT !.selectedVote = IF c = "c1" THEN NoVote ELSE "5"]]
    /\ feed = [c \in Clients |-> NoFeed]
    /\ fetched = [c \in Clients |-> NoFetched]
    /\ clicks = 0

NextAdvance ==
    \E c \in Clients :
        \/ AdvanceClick(c)
        \/ AdvanceUpdate(c, BOOLEAN)
        \/ ResetSessionUpdate(c, NoFailure)
        \/ ResetParticipantsUpdate(c, NoFailure)
        \/ ResetReturn(c)
        \/ CardClick(c)
        \/ VoteUpdate(c, NoFailure)
        \/ SessionNotified(c)

SpecAdvance == InitAdvance /\ [][NextAdvance]_vars

\* ---------------------------------------------------- attaching a view
\* The session of VoteStore: the organizer's view is loaded, joinSession has
\* just returned to the joiner, whose view is about to mount.  While it
\* loads and afterwards, votes are cast, revealed and reset; no request
\* fails.
InitAttach ==
    /\ sessions = VoteStore.sessions
    /\ participants = VoteStore.participants
    /\ stories = <<>>
    /\ seq = 3
    /\ call = [c \in Clients |->
                 IF c = "c1" THEN Idle ELSE Returned("join", VoteSession, 3)]
    /\ mirror = [c \in Clients |->
                   IF c = "c1"
                   THEN Mounted(1, TRUE, VoteStore.sessions[VoteSession],
                                OrderByJoinedAt(VoteStore.participants, {1, 3}),
                                <<>>)
                   ELSE NoMirror]
    /\ feed = [c \in Clients |-> NoFeed]
    /\ fetched = [c \in Clients |-> NoFetched]
    /\ clicks = 0

\* What the users do.
AttachClicks ==
    \E c \in Clients : CardClick(c) \/ RevealClick(c) \/ ResetClick(c)

\* What happens without a user: views mount and load, requests are applied
\* and answered, notifications are handled.
AttachSteps ==
    \E c \in Clients :
        \/ Mount(c)
        \/ LoadSession(c, NoFailure)
        \/ LoadParticipants(c, NoFailure)
        \/ LoadStories(c, NoFailure)
        \/ LoadApply(c)
        \/ VoteUpdate(c, NoFailure)
        \/ RevealUpdate(c, NoFailure)
        \/ ResetSessionUpdate(c, NoFailure)
        \/ ResetParticipantsUpdate(c, NoFailure)
        \/ ResetReturn(c)
        \/ SessionNotified(c)
        \/ ParticipantsNotified(c, NoFailure)
        \/ ParticipantsFetched(c)

NextAttach == AttachClicks \/ AttachSteps

SpecAttach == InitAttach /\ [][NextAttach]_vars

\* Every request is answered and every notification handled in the end; the
\* users may stop clicking at any time.
FairAttach == SpecAttach /\ WF_vars(AttachSteps)

\* The joiner's view loads while the organizer reveals, resets and adds
\* stories (the participants' rows are not re-fetched here: no vote is cast).
FetchSteps ==
    \E c \in Clients :
        \/ Mount(c)
        \/ LoadSession(c, NoFailure)
        \/ LoadParticipants(c, NoFailure)
        \/ LoadStories(c, NoFailure)
        \/ LoadApply(c)
        \/ RevealClick(c)
        \/ RevealUpdate(c, NoFailure)
        \/ ResetClick(c)
        \/ ResetSessionUpdate(c, NoFailure)
        \/ ResetParticipantsUpdate(c, NoFailure)
        \/ ResetReturn(c)
        \/ AddStoryRead(c, NoFailure)
        \/ AddStoryInsert(c, NoFailure)
        \/ SessionNotified(c)
        \/ StoriesNotified(c, NoFailure)
        \/ StoriesFetched(c)

NextFetch == FetchSteps

SpecFetch == InitAttach /\ [][NextFetch]_vars

\* The session of InitAttach may be deleted while the joiner's view
\* mounts and loads and the organizer's view is in use.
NextGone ==
    \/ SessionGone
    \/ \E c \in Clients :
          \/ Mount(c)
          \/ LoadSession(c, NoFailure)
          \/ LoadParticipants(c, NoFailure)
          \/ LoadStories(c, NoFailure)
          \/ LoadApply(c)
          \/ CardClick(c)
          \/ VoteUpdate(c, NoFailure)
          \/ RevealClick(c)
          \/ RevealUpdate(c, NoFailure)
          \/ SessionNotified(c)
          \/ ParticipantsNotified(c, NoFailure)
          \/ ParticipantsFetched(c)

SpecGone == InitAttach /\ [][NextGone]_vars

\* ------------------------------------------------------ re-fetching
\* The round of InitAdvance seen from the organizer's view alone: the
\* votes are reset, stories added and deleted; a re-fetch may fail, the
\* other requests do not.
InitRefetch ==
    /\ sessions = AdvanceStore.sessions
    /\ participants = AdvanceStore.participants
    /\ stories = StoryStore
    /\ seq = 5
    /\ call = [c \in Clients |-> Idle]
    /\ mirror = [c \in Clients |->
                   IF c = "c1"
                   THEN Mounted(1, TRUE, AdvanceStore.sessions[VoteSession],
                                OrderByJoinedAt(AdvanceStore.participants, {1, 3}),
                                <<StoryStore[4], StoryStore[5]>>)
                   ELSE NoMirror]
    /\ feed = [c \in Clients |-> NoFeed]
    /\ fetched = [c \in Clients |-> NoFetched]
    /\ clicks = 0

NextRefetch ==
    \E c \in Clients :
        \/ ResetClick(c)
        \/ ResetSessionUpdate(c, NoFailure)
        \/ ResetParticipantsUpdate(c, NoFailure)
        \/ ResetReturn(c)
        \/ AddStoryRead(c, NoFailure)
        \/ AddStoryInsert(c, NoFailure)
        \/ DeleteClick(c)
        \/ DeleteUpdate(c, NoFailure)
        \/ SessionNotified(c)
        \/ ParticipantsNotified(c, BOOLEAN)
        \/ ParticipantsFetched(c)
        \/ StoriesNotified(c, BOOLEAN)
        \/ StoriesFetched(c)

SpecRefetch == InitRefetch /\ [][NextRefetch]_vars

\* -------------------------------------------- navigating a changing list
\* From the same state the organizer navigates, adds and deletes stories;
\* no request fails.
NextCurrent ==
    \E c \in Clients :
        \/ AdvanceClick(c)
        \/ AdvanceUpdate(c, NoFailure)
        \/ ResetSessionUpdate(c, NoFailure)
        \/ ResetParticipantsUpdate(c, NoFailure)
        \/ ResetReturn(c)
        \/ AddStoryRead(c, NoFailure)
        \/ AddStoryInsert(c, NoFailure)
        \/ DeleteClick(c)
        \/ DeleteUpdate(c, NoFailure)
        \/ SessionNotified(c)
        \/ StoriesNotified(c, NoFailure)
        \/ StoriesFetched(c)

SpecCurrent == InitRefetch /\ [][NextCurrent]_vars

\* -------------------------------------------------- heartbeat and leave
\* The two views of InitVote with the heartbeat running and the users free
\* to leave; a heartbeat may fail, a re-fetch does not.
DetachSteps ==
    \E c \in Clients :
        \/ HeartbeatUpdate(c, BOOLEAN)
        \/ ParticipantsNotified(c, NoFailure)
        \/ ParticipantsFetched(c)

NextDetach ==
    \/ DetachSteps
    \/ \E c \in Clients :
          \/ HeartbeatTick(c)
          \/ Detach(c)

SpecDetach == InitVote /\ [][NextDetach]_vars

\* --------------------------------------------------- removeParticipant
\* Mutant: the row is left in the table.
ParticipantKept(ps, pid) == ps

\* .delete().eq("id", participantId): the table without that row.
WithoutParticipant(ps, pid) == [p \in DOMAIN ps \ {pid} |-> ps[p]]

\* Mutant: the organizer sees the button on every row.
RemoveOfferedOnAll(c, row) == mirror[c].isOrganizer

\* {isOrganizer && !participant.is_organizer && (<Button .../>)}
RemoveOffered(c, row) == mirror[c].isOrganizer /\ ~row.is_organizer

\* The X button next to a participant: shown to the organizer, on the rows
\* of the others that are no organizers.
RemoveClick(c) ==
    /\ InSession(c) /\ call[c] = Idle
    /\ clicks < MaxClicks /\ clicks' = clicks + 1
    /\ \E i \in DOMAIN mirror[c].participants :
          /\ RemoveOffered(c, mirror[c].participants[i])
          /\ call' = [call EXCEPT ![c] =
                        [op |-> "remove",
                         participantId |-> mirror[c].participants[i].id]]
    /\ UNCHANGED <<storeVars, mirror, feed, fetched>>

\* removeParticipant at the store.  handleRemoveParticipant logs an error
\* and does nothing else; the change reaches the subscribers of the session
\* as one participant notification.
RemoveDelete(c, oks) ==
    /\ call[c].op = "remove"
    /\ \E ok \in oks :
          LET pid == call[c].participantId IN
          IF ok /\ pid \in DOMAIN participants
          THEN /\ participants' = WithoutParticipant(participants, pid)
               /\ feed' = WithParticipantNotes(feed, participants[pid].session_id, 1)
               /\ call' = Seen([call EXCEPT ![c] = Idle],
                                sessions, participants', stories)
          ELSE /\ call' = [call EXCEPT ![c] = Idle]
               /\ UNCHANGED <<participants, feed>>
    /\ UNCHANGED <<sessions, stories, seq, mirror, fetched, clicks>>

\* The two views of InitVote: the organizer may remove the other
\* participant, the heartbeats run, either user may leave.
RemoveSteps ==
    \E c \in Clients :
        \/ RemoveDelete(c, BOOLEAN)
        \/ HeartbeatUpdate(c, NoFailure)
        \/ ParticipantsNotified(c, NoFailure)
        \/ ParticipantsFetched(c)

NextRemove ==
    \/ RemoveSteps
    \/ \E c \in Clients :
          \/ RemoveClick(c)
          \/ HeartbeatTick(c)
          \/ Detach(c)

SpecRemove == InitVote /\ [][NextRemove]_vars

\* The room of InitVote with the two stories of StoryStore on both views:
\* the organizer may remove the other participant, whose view goes on
\* ticking, voting and navigating; no request fails.
InitOusted ==
    /\ sessions = VoteStore.sessions
    /\ participants = VoteStore.participants
    /\ stories = StoryStore
    /\ seq = 5
    /\ call = [c \in Clients |-> Idle]
    /\ mirror = [c \in Clients |->
                   Mounted(IF c = "c1" THEN 1 ELSE 3, c = "c1",
                           VoteStore.sessions[VoteSession],
                           OrderByJoinedAt(VoteStore.participants, {1, 3}),
                           <<StoryStore[4], StoryStore[5]>>)]
    /\ feed = [c \in Clients |-> NoFeed]
    /\ fetched = [c \in Clients |-> NoFetched]
    /\ clicks = 0

NextOusted ==
    \E c \in Clients :
        \/ RemoveClick(c)
        \/ RemoveDelete(c, NoFailure)
        \/ HeartbeatTick(c)
        \/ HeartbeatUpdate(c, NoFailure)
        \/ CardClick(c)
        \/ VoteUpdate(c, NoFailure)
        \/ AdvanceClick(c)
        \/ AdvanceUpdate(c, NoFailure)
        \/ ResetSessionUpdate(c, NoFailure)
        \/ ResetParticipantsUpdate(c, NoFailure)
        \/ ResetReturn(c)
        \/ SessionNotified(c)

SpecOusted == InitOusted /\ [][NextOusted]_vars

\* The users take turns at creating, joining and removing; the last step
\* of a creation may fail, nothing else does.
NextOrganizer ==
    \E c \in Clients :
        \/ Quiet /\ CreateOrganizer(c, NoFailure)
        \/ Quiet /\ JoinLookup(c, NoFailure)
        \/ Quiet /\ RemoveClick(c)
        \/ CreateSessionRow(c, NoFailure)
        \/ CreatePatch(c, BOOLEAN)
        \/ JoinCheck(c, NoFailure)
        \/ JoinInsert(c, NoFailure)
        \/ Dismiss(c)
        \/ Mount(c)
        \/ LoadSession(c, NoFailure)
        \/ LoadParticipants(c, NoFailure)
        \/ LoadStories(c, NoFailure)
        \/ LoadApply(c)
        \/ RemoveDelete(c, NoFailure)
        \/ ParticipantsNotified(c, NoFailure)
        \/ ParticipantsFetched(c)

SpecOrganizer == Init /\ [][NextOrganizer]_vars

\* Every request is answered and every notification handled; what the
\* users do is up to them.
FairRemove == SpecRemove /\ WF_vars(RemoveSteps)

\* Every request is answered and every notification of a view on screen is
\* handled in the end.
FairDetach == SpecDetach /\ WF_vars(DetachSteps)

\* ------------------------------------------------ moveStory as a function
\* As SpecStory, with moveStory called with any id.
NextMove ==
    \E c \in Clients :
        \/ AddStoryRead(c, NoFailure)
        \/ AddStoryInsert(c, NoFailure)
        \/ MoveAny(c)
        \/ MoveCurrentUpdate(c, NoFailure)
        \/ MoveTargetUpdate(c, NoFailure)
        \/ MoveReturn(c)
        \/ DeleteClick(c)
        \/ DeleteUpdate(c, NoFailure)
        \/ StoriesNotified(c, NoFailure)
        \/ StoriesFetched(c)

SpecMove == InitStory /\ [][NextMove]_vars

\* ================================================================ claims
\* --------------------------------------------------------------------- C1
\* The rows of session sid are as a reset leaves them: votes hidden, and no
\* participant of the session with a vote or the has_voted flag.
ResetState(sid) ==
    /\ ~sessions[sid].votes_revealed
    /\ \A p \in ParticipantsOf(participants, sid) :
          ~participants[p].has_voted /\ participants[p].vote = NoVote

\* Both updates of client c's resetVotes have been applied without error:
\* the state in which it returns.
ResetDone(c) ==
    /\ call[c].op = "reset"
    /\ call[c].session = "ok" /\ call[c].participants = "ok"

\* C1 as claimed: whenever a reset completes and neither update failed, the
\* store has votes_revealed = false and every participant of the session
\* has has_voted = false and vote = null, whatever castVote and reveal
\* requests of other clients interleave.
C1_ResetAlwaysClears == \A c \in Clients : ResetDone(c) => ResetState(call[c].sessionId)

\* C1 amended: whenever a reset completes and neither update failed, the
\* store has votes_revealed = false and every participant cleared, provided
\* no reveal was applied after the reset's session update and no castVote
\* after its participants update (the store keeps the last write).
C1_ResetClearsUnlessOvertaken ==
    \A c \in Clients :
        ResetDone(c) /\ ~call[c].overtaken => ResetState(call[c].sessionId)

\* A reset returns on a session that had been revealed with a vote cast:
\* a notification still carries the revealed row.
C1_Witness ==
    \E c \in Clients :
        /\ ResetDone(c) /\ ~call[c].overtaken
        /\ \E d \in Clients :
              /\ mirror[d].mounted /\ votesRevealed(d)
              /\ \E i \in DOMAIN mirror[d].participants :
                    mirror[d].participants[i].has_voted

\* --------------------------------------------------------------------- C2
\* C2 as claimed: a castVote write is applied to a participant row only
\* while the store's session row has votes_revealed = false.
C2_VoteOnlyWhileCollecting ==
    [][\A p \in DOMAIN participants :
          (/\ p \in DOMAIN participants'
           /\ participants'[p].vote # participants[p].vote
           /\ participants'[p].vote # NoVote)
          => ~sessions[participants[p].session_id].votes_revealed]_vars

\* C2 amended: a castVote request is issued only by a client that is not the
\* organizer and whose local session mirror has votes_revealed = false, for
\* its own participant; the store applies it whatever its own flag says.
C2_VoteIssuedWhileMirrorCollecting ==
    [][\A c \in Clients :
          call[c].op # "vote" /\ call'[c].op = "vote"
          => /\ ~mirror[c].isOrganizer
             /\ mirror[c].session # NoSession
             /\ ~mirror[c].session.votes_revealed
             /\ call'[c].participantId = mirror[c].me]_vars

\* A vote is in flight from a client whose mirror is stale: the store has
\* the votes revealed already.
C2_Witness ==
    \E c \in Clients :
        /\ call[c].op = "vote"
        /\ ~votesRevealed(c)
        /\ sessions[mirror[c].sessionId].votes_revealed

\* --------------------------------------------------------------------- C3
\* C3 as claimed: while the store has votes_revealed = false, no client
\* shows the value of any participant's vote.
C3_NoVoteShownWhileStoreHidden ==
    \A c \in Clients :
        ShownVotes(c) # {} => sessions[mirror[c].sessionId].votes_revealed

\* C3 amended: a client shows the value of a participant's vote only when
\* votes_revealed is true in its own session mirror (which may lag behind the
\* store); with the mirror's flag false it shows voted / not-voted marks only.
C3_VoteShownOnlyWhenMirrorRevealed ==
    \A c \in Clients :
        /\ ShownVotes(c) # {} => votesRevealed(c)
        /\ InSession(c) /\ ~votesRevealed(c)
           => /\ ResultTiles(c) = {}
              /\ \A i \in DOMAIN mirror[c].participants :
                    Badge(c, mirror[c].participants[i]).kind = "mark"

\* A client has a vote on screen while the store has the votes hidden.
C3_Witness ==
    \E c \in Clients :
        /\ ShownVotes(c) # {}
        /\ ~sessions[mirror[c].sessionId].votes_revealed

\* --------------------------------------------------------------------- C6
\* C6: in every state of the store, every participant row has
\* has_voted = true exactly when its vote is not null.
C6_VoteIffHasVoted ==
    \A p \in DOMAIN participants :
        participants[p].has_voted <=> participants[p].vote # NoVote

\* A vote has been cast and a reset is clearing the session.
C6_Witness ==
    /\ \E p \in DOMAIN participants : participants[p].has_voted
    /\ \E c \in Clients : call[c].op = "reset" /\ call[c].session = "ok"

\* --------------------------------------------------------------------- C7
\* C7: reveal is idempotent.  A reveal applied to a session that is revealed
\* already changes no session, participant or story row.
C7_RevealIdempotent ==
    [][\A c \in Clients :
          (/\ call[c].op = "reveal" /\ call'[c] = Idle
           /\ call[c].sessionId \in DOMAIN sessions
           /\ sessions[call[c].sessionId].votes_revealed)
          => /\ sessions' = sessions
             /\ participants' = participants
             /\ stories' = stories]_vars

\* A second reveal is in flight on a session revealed by a first.
C7_Witness ==
    \E c \in Clients :
        /\ call[c].op = "reveal"
        /\ sessions[call[c].sessionId].votes_revealed

\* --------------------------------------------------------------------- C4
\* C4: a joinSession whose name check runs (and is answered by the store)
\* while the session holds at least one participant of exactly that name
\* ends with the name-collision error, and so inserts no row.
C4_JoinRejectsTakenName ==
    [][\A c \in Clients :
          (/\ call[c].op = "join" /\ call[c].pc = "check"
           /\ call'[c] # call[c]
           /\ NamedIn(participants, call[c].session, call[c].participantName) # {}
           /\ (call'[c].pc = "insert" => call'[c].checkError # "request failed"))
          => call'[c] = Threw("join", "name exists")]_vars

\* --------------------------------------------------------------------- C5
\* The organizers of session sid among its participant rows.
OrganizersOf(ps, sid) == {p \in ParticipantsOf(ps, sid) : ps[p].is_organizer}

OneOrganizer ==
    \A sid \in DOMAIN sessions :
        /\ Cardinality(OrganizersOf(participants, sid)) <= 1
        /\ \A p \in OrganizersOf(participants, sid) : p = sessions[sid].organizer_id

\* C5: every session has at most one participant with is_organizer = true,
\* and it is the session's organizer_id; a row inserted into a session by
\* joinSession has is_organizer = false; no step changes the is_organizer of
\* a row or the organizer_id of a session.
C5_OneOrganizer ==
    [][/\ OneOrganizer'
       /\ \A p \in DOMAIN participants' :
             IF p \in DOMAIN participants
             THEN participants'[p].is_organizer = participants[p].is_organizer
             ELSE participants'[p].session_id # NoId => ~participants'[p].is_organizer
       /\ \A sid \in DOMAIN sessions :
             /\ sid \in DOMAIN sessions'
             /\ sessions'[sid].organizer_id = sessions[sid].organizer_id]_vars

\* A session holds its organizer and a participant that joined.
C5_Witness ==
    \E sid \in DOMAIN sessions :
        /\ OrganizersOf(participants, sid) = {sessions[sid].organizer_id}
        /\ ParticipantsOf(participants, sid) # OrganizersOf(participants, sid)

\* --------------------------------------------------------------------- C9
\* The rows a createSession that returns leaves behind, but for the other
\* participants of the session: a session row in state collecting with no
\* current story and no stories, and the organizer row.
CreatedRows(cl, ss, ps, sts) ==
    /\ cl.session \in DOMAIN ss
    /\ ss[cl.session].room_code = cl.roomCode
    /\ ss[cl.session].name = cl.name
    /\ ~ss[cl.session].votes_revealed
    /\ ss[cl.session].current_story_id = NoId
    /\ ss[cl.session].organizer_id = cl.organizer
    /\ {st \in DOMAIN sts : sts[st].session_id = cl.session} = {}
    /\ cl.organizer \in DOMAIN ps
    /\ ps[cl.organizer] =
          [ParticipantRow(cl.organizer, cl.session, cl.organizerName, TRUE)
              EXCEPT !.joined_at = ps[cl.organizer].joined_at,
                     !.last_seen = ps[cl.organizer].last_seen]

\* createSession returns to client c in this step.
CreateReturns(c) ==
    /\ call[c].op = "create" /\ call[c].pc = "patch"
    /\ call'[c].pc = "returned"

\* C9 as claimed: a createSession whose three requests succeed results in
\* one session row (collecting, no current story, no stories) and exactly one
\* participant row for that session: the organizer's.
C9_CreateLeavesOneParticipant ==
    [][\A c \in Clients :
          CreateReturns(c)
          => /\ CreatedRows(call[c], sessions', participants', stories')
             /\ ParticipantsOf(participants', call[c].session) = {call[c].organizer}]_vars

\* C9 amended: ... and exactly one participant row of that session with
\* is_organizer = true, the organizer's; any other participant row of the
\* session is a non-organizer row that a joinSession inserted between the
\* insert of the session row and the return of createSession.
C9_CreateLeavesOneOrganizer ==
    [][\A c \in Clients :
          CreateReturns(c)
          => /\ CreatedRows(call[c], sessions', participants', stories')
             /\ OrganizersOf(participants', call[c].session) = {call[c].organizer}]_vars

\* createSession has returned its session, which holds the organizer and a
\* participant that joined.
C9_Witness ==
    \E c \in Clients :
        /\ call[c].op = "create" /\ call[c].pc = "returned"
        /\ OrganizersOf(participants, call[c].session) = {call[c].participant}
        /\ ParticipantsOf(participants, call[c].session) # {call[c].participant}

\* --------------------------------------------------------------------- C8
\* joinSession inserts for client c in this step.
JoinInserts(c) ==
    /\ call[c].op = "join" /\ call[c].pc = "insert"
    /\ call'[c].pc = "returned"

\* C8: with the users taking turns and every request of the operation
\* succeeding: a joinSession adds the joiner at the end of the session's
\* participant list (so [organizer, joiner] in a session holding its
\* organizer); a castVote sets has_voted and the vote on the voter's row and
\* changes no other row; a reveal sets votes_revealed and changes no
\* participant row; a reset that returns leaves votes_revealed = false and
\* every participant of the session with has_voted = false, vote = null.
C8_OneAfterAnother ==
    [][\A c \in Clients :
          /\ JoinInserts(c)
             => LET sid == call[c].session
                    joiner == participants'[call'[c].participant]
                IN  /\ joiner = JoinerRow(joiner.id, sid, call[c].participantName)
                    /\ OrderByJoinedAt(participants', ParticipantsOf(participants', sid))
                          = Append(FetchParticipants(sid), joiner)
          /\ (call[c].op = "vote" /\ call'[c] = Idle)
             => participants' =
                   [p \in DOMAIN participants |->
                       IF p = call[c].participantId
                       THEN [participants[p] EXCEPT !.has_voted = TRUE,
                                                    !.vote = call[c].vote]
                       ELSE participants[p]]
          /\ (call[c].op = "reveal" /\ call'[c] = Idle)
             => /\ sessions'[call[c].sessionId].votes_revealed
                /\ participants' = participants
          /\ (ResetDone(c) /\ call'[c] = Idle)
             => ResetState(call[c].sessionId)]_vars

\* The whole scenario has run: on a session whose only participants are the
\* organizer and a joiner, a reset returns while a view still shows the
\* joiner's vote revealed.
C8_Witness ==
    \E c \in Clients :
        /\ ResetDone(c)
        /\ Cardinality(ParticipantsOf(participants, call[c].sessionId)) = 2
        /\ \E d \in Clients :
              /\ mirror[d].mounted /\ votesRevealed(d)
              /\ Len(mirror[d].participants) = 2
              /\ mirror[d].participants[1].is_organizer
              /\ mirror[d].participants[2].has_voted
              /\ mirror[d].participants[2].vote \in cardValues

\* -------------------------------------------------------------------- C10
\* C10: a moveStory issued from a local list equal to the store's and whose
\* two updates succeed leaves the moved story and its neighbour with each
\* other's order_index, every other story as it was, and the two stories in
\* each other's positions in the list sorted by order_index.
C10_MoveSwapsNeighbours ==
    [][\A c \in Clients :
          (/\ call[c].op = "move" /\ call'[c] = Idle
           /\ call[c].fresh
           /\ call[c].current = "ok" /\ call[c].target = "ok")
          => LET before == call[c].before
                 moved == call[c].updates.current.id
                 neighbour == call[c].updates.target.id
             IN  /\ DOMAIN stories = DOMAIN before
                 /\ stories[moved].order_index = before[neighbour].order_index
                 /\ stories[neighbour].order_index = before[moved].order_index
                 /\ \A s \in DOMAIN before \ {moved, neighbour} :
                       stories[s] = before[s]
                 /\ \A list \in FetchStories(call[c].sessionId) :
                       /\ list[call[c].position.target + 1].id = moved
                       /\ list[call[c].position.current + 1].id = neighbour]_vars

\* -------------------------------------------------------------------- C11
\* How many stories of `ids` have order_index v in table sts.
IndexCount(sts, ids, v) == Cardinality({s \in ids : sts[s].order_index = v})

\* The stories of session sid have the same order_index values, each as
\* often, in tables a and b.
SameIndices(a, b, sid) ==
    \A v \in {a[s].order_index : s \in StoriesOf(a, sid)}
             \cup {b[s].order_index : s \in StoriesOf(b, sid)} :
        IndexCount(a, StoriesOf(a, sid), v) = IndexCount(b, StoriesOf(b, sid), v)

\* C11: every moveStory whose two updates succeed leaves the order_index
\* values of the session's stories, counted with multiplicity, as they were
\* when it was issued, also when it was issued from a stale local list.
C11_MoveKeepsIndices ==
    [][\A c \in Clients :
          (/\ call[c].op = "move" /\ call'[c] = Idle
           /\ call[c].current = "ok" /\ call[c].target = "ok")
          => SameIndices(call[c].before, stories, call[c].sessionId)]_vars

\* -------------------------------------------------------------------- C12
\* A story mutation (addStory, moveStory, deleteStory) of client c is under
\* way.
StoryMutation(c) == call[c].op \in {"addStory", "move", "delete"}

\* C12: whenever no story mutation is under way, no two stories of a session
\* have the same order_index (no request failing).
C12_IndicesDistinct ==
    (\A c \in Clients : ~StoryMutation(c))
    => \A s, t \in DOMAIN stories :
          (s # t /\ stories[s].session_id = stories[t].session_id)
          => stories[s].order_index # stories[t].order_index

\* -------------------------------------------------------------------- C13
\* addStory inserts for client c in this step.
AddInserts(c) == call[c].op = "addStory" /\ stories' # stories

AtEdge(list, id, direction) ==
    \/ list # <<>> /\ id = list[1].id /\ direction = "up"
    \/ list # <<>> /\ id = list[Len(list)].id /\ direction = "down"
    \/ id \notin IdsIn(list)

\* For every local list reached and every id, a moveStory at the edge issues
\* no update request.
NoRequestAtEdge ==
    \A c \in Clients :
        mirror[c].mounted
        => \A id \in IdsIn(mirror[c].stories) \cup DOMAIN stories \cup {NoId},
              direction \in {"up", "down"} :
                 AtEdge(mirror[c].stories, id, direction)
                 => MoveRequests(mirror[c].stories, id, direction) = {}

\* C14: moveStory up on the first story of the local list, down on the last,
\* or with an id that is not in the list issues no update request and leaves
\* every story as it is: a moveStory call that leaves no call under way
\* changes no table.
C14_EdgeMoveDoesNothing ==
    [][/\ NoRequestAtEdge /\ NoRequestAtEdge'
       /\ (clicks' # clicks /\ call' = call) => UNCHANGED storeVars]_vars

\* moveStory was called at the edge and nothing else has happened.
C14_Witness ==
    /\ clicks = 1
    /\ \A c \in Clients : call[c] = Idle /\ feed[c] = NoFeed
    /\ stories = StoryStore
    /\ \E c \in Clients :
          /\ mirror[c].mounted
          /\ \E direction \in {"up", "down"} :
                /\ AtEdge(mirror[c].stories, NoId, direction)
                /\ mirror[c].stories # <<>>

\* -------------------------------------------------------------------- C15
\* The reset of client c's advance returns, both its updates applied.
AdvanceDone(c) == ResetDone(c) /\ call[c].story # NoId /\ call'[c] = Idle

\* A reset that belongs to an advance is issued only by the step that
\* applied the advance's update of current_story_id.
ResetFollowsUpdate(c) ==
    (call'[c].op = "reset" /\ call[c].op # "reset" /\ call'[c].story # NoId)
    => /\ call[c].op = "advance"
       /\ call'[c].story = call[c].storyId
       /\ sessions'[call[c].sessionId].current_story_id = call[c].storyId

Synced(c) ==
    /\ ~mirror[c].loading
    /\ mirror[c].sessionId \in DOMAIN sessions
    /\ mirror[c].session = sessions[mirror[c].sessionId]
    /\ mirror[c].participants = FetchParticipants(mirror[c].sessionId)
    /\ mirror[c].stories \in FetchStories(mirror[c].sessionId)

AllSynced == \A c \in Clients : mirror[c].mounted => Synced(c)

\* C16: once mutations have stopped (no request failing), every attached
\* client's mirror eventually equals the store's rows of its session and
\* stays equal, in whatever order load responses, notifications and re-fetch
\* responses arrive.
C16_MirrorsConverge == <>[]AllSynced

\* -------------------------------------------------------------------- C17
\* The three reads of the getSessionData that client c is about to apply
\* are the rows of one store state the load has run through.
OneStoreState(c) == call[c].states # {}

\* A list of rows is in the order of field `key`.
OrderedBy(list, key) ==
    \A i, j \in DOMAIN list : i < j => list[i][key] <= list[j][key]

\* C17: the session row, the participants and the stories a load puts into
\* the mirror are the rows of one single store state, whatever other
\* clients change meanwhile; the participants are in joined_at order and the
\* stories in order_index order.
C17_LoadIsOneStoreState ==
    [][\A c \in Clients :
          LoadApply(c) =>
             /\ OneStoreState(c)
             /\ OrderedBy(mirror'[c].participants, "joined_at")
             /\ OrderedBy(mirror'[c].stories, "order_index")]_vars

\* -------------------------------------------------------------------- C18
\* The load that client c is about to apply found no session row.
FoundNoRow(c) == call[c].op = "load" /\ call[c].pending = {} /\ call[c].session = NoSession

\* The view of client c shows "Session not found".
NotFound(c) ==
    mirror[c].mounted /\ ~mirror[c].loading /\ mirror[c].session = NoSession

OnlySessionChanges(c) ==
    mirror' = [mirror EXCEPT ![c].session = mirror'[c].session]

\* C19 as claimed: on every notification for the session row the snapshot
\* becomes the notification's row image, nothing kept of the previous one,
\* and the participants and stories of the view stay as they are.
C19_EveryNoteReplacesSnapshot ==
    [][\A c \in Clients :
          SessionNotified(c) =>
             /\ mirror'[c].session = Head(feed[c].sessions)
             /\ OnlySessionChanges(c)]_vars

\* C19 as the code has it: an UPDATE notification's row image becomes the
\* snapshot, nothing kept of the previous one; any other notification of the
\* session row leaves the snapshot as it was; the participants and stories
\* of the view stay as they are in both cases.
C19_UpdateNoteReplacesSnapshot ==
    [][\A c \in Clients :
          SessionNotified(c) =>
             /\ mirror'[c].session =
                   IF IsUpdate(Head(feed[c].sessions))
                   THEN Head(feed[c].sessions) ELSE mirror[c].session
             /\ OnlySessionChanges(c)]_vars

\* The organizer's view shows the votes revealed (its snapshot is set by
\* notifications only) with its participants list in place.
C19_Witness ==
    \E c \in Clients :
        /\ InSession(c) /\ mirror[c].isOrganizer
        /\ mirror[c].session.votes_revealed
        /\ mirror[c].participants # <<>>
        /\ feed[c].sessions = <<>>

\* -------------------------------------------------------------------- C20
\* Handling a notification of table `what` issues one read of the whole set
\* of the session, in the order of the query; nothing of the view changes.
ReadsWholeSet(c, what, answers) ==
    /\ fetched'[c][what] \subseteq answers
    /\ mirror' = mirror

\* The response of a re-fetch of table `what` becomes the local list as it
\* is, whatever the list held before; nothing else of the view changes.
ReplacesList(c, what) ==
    /\ fetched[c][what] = fetched'[c][what] \cup {mirror'[c][what]}
    /\ fetched'[c][what] # fetched[c][what]
    /\ mirror' = [mirror EXCEPT ![c][what] = mirror'[c][what]]

\* C20: a notification for the participants (the stories) of the session
\* makes the client read the whole set again, ordered by joined_at (by
\* order_index), and the answer of a read that succeeded replaces the local
\* list: the list is then the store's set as it was when it was read.
C20_RefetchReplacesList ==
    [][\A c \in Clients :
          /\ ParticipantsNotified(c, BOOLEAN) =>
                ReadsWholeSet(c, "participants",
                              {FetchParticipants(mirror[c].sessionId)})
          /\ StoriesNotified(c, BOOLEAN) =>
                ReadsWholeSet(c, "stories", FetchStories(mirror[c].sessionId))
          /\ ParticipantsFetched(c) => ReplacesList(c, "participants")
          /\ StoriesFetched(c) => ReplacesList(c, "stories")]_vars

\* A view whose participants list shows the votes cleared and whose story
\* list is no longer the two stories it began with, both lists equal to the
\* store's.
C20_Witness ==
    \E c \in Clients :
        /\ InSession(c)
        /\ mirror[c].participants = FetchParticipants(mirror[c].sessionId)
        /\ \A i \in DOMAIN mirror[c].participants :
              ~mirror[c].participants[i].has_voted
        /\ mirror[c].stories \in FetchStories(mirror[c].sessionId)
        /\ Len(mirror[c].stories) # 2
        /\ fetched[c] = NoFetched

\* -------------------------------------------------------------------- C21
\* Client c's view, its pending re-fetch responses and its subscription are
\* as they were.
ViewKept(c) ==
    /\ mirror' = mirror
    /\ fetched' = fetched
    /\ Subscribed(c, mirror[c].sessionId)'

\* C21: a re-fetch that fails leaves the local list (and all of the view)
\* as it was and the client subscribed; a later notification whose re-fetch
\* succeeds reads the store's set of that moment, which then becomes the
\* list.
C21_FailedRefetchKeepsList ==
    [][\A c \in Clients :
          /\ ParticipantsNotified(c, {FALSE}) => ViewKept(c)
          /\ StoriesNotified(c, {FALSE}) => ViewKept(c)
          /\ ParticipantsNotified(c, {TRUE}) =>
                fetched'[c].participants = {FetchParticipants(mirror[c].sessionId)}
          /\ StoriesNotified(c, {TRUE}) =>
                /\ fetched'[c].stories # {}
                /\ fetched'[c].stories \subseteq FetchStories(mirror[c].sessionId)
          /\ ParticipantsFetched(c) =>
                {mirror'[c].participants} = fetched[c].participants
          /\ StoriesFetched(c) => {mirror'[c].stories} = fetched[c].stories]_vars

\* A view whose participants list is behind the store with nothing under
\* way: the re-fetch of the last notification failed.
C21_Witness ==
    \E c \in Clients :
        /\ InSession(c) /\ call[c] = Idle
        /\ feed[c] = NoFeed /\ fetched[c] = NoFetched
        /\ mirror[c].participants # FetchParticipants(mirror[c].sessionId)
        /\ mirror[c].participants # <<>>

\* -------------------------------------------------------------------- C22
\* Client c has something in flight at the store.
InFlight(c) == call[c] # Idle \/ fetched[c].heartbeats # {}

\* C22: a detached client issues no further heartbeat and handles no
\* further notification (its view stays gone, nothing is delivered to it, no
\* re-fetch is issued for it); detaching cancels none of its requests in
\* flight, which complete in the end; detaching again changes nothing.
C22_DetachedIsSilent ==
    /\ [][\A c \in Clients :
            /\ ~mirror[c].mounted =>
                  /\ fetched'[c].heartbeats \subseteq fetched[c].heartbeats
                  /\ fetched'[c].participants = {} /\ fetched'[c].stories = {}
                  /\ feed'[c] = NoFeed
                  /\ mirror'[c] = NoMirror
            /\ Detach(c) =>
                  /\ call' = call
                  /\ fetched'[c].heartbeats = fetched[c].heartbeats
                  /\ storeVars' = storeVars
            /\ Detach(c) /\ ~mirror[c].mounted => vars' = vars]_vars
    /\ \A c \in Clients : (~mirror[c].mounted /\ InFlight(c)) ~> ~InFlight(c)

\* A client has left with a heartbeat of its own still in flight, while
\* the other client's view is on screen and has a notification to handle.
C22_Witness ==
    \E c, d \in Clients :
        /\ ~mirror[c].mounted /\ fetched[c].heartbeats # {}
        /\ mirror[d].mounted /\ feed[d].participants > 0

\* -------------------------------------------------------------------- C23
\* The interval of client c can fire: its view is on screen (the tick
\* budget and the cap on heartbeats in flight are the model's).
CanTick(c) ==
    /\ mirror[c].mounted
    /\ clicks < MaxClicks
    /\ Cardinality(fetched[c].heartbeats) < MaxPending

\* C23: every tick of an attached client issues a heartbeat for its own
\* participant; a heartbeat that fails changes nothing of the view, the
\* store or the client's other requests, and the interval fires again.
C23_HeartbeatSurvivesFailure ==
    /\ [][\A c \in Clients :
            /\ HeartbeatTick(c) =>
                  \E hb \in fetched'[c].heartbeats \ fetched[c].heartbeats :
                     hb.id = mirror[c].me /\ hb.last_seen = seq'
            /\ HeartbeatUpdate(c, {FALSE}) =>
                  /\ mirror' = mirror /\ call' = call /\ feed' = feed
                  /\ storeVars' = storeVars
                  /\ CanTick(c) => ENABLED HeartbeatTick(c)]_vars
    /\ [](\A c \in Clients : CanTick(c) => ENABLED HeartbeatTick(c))

\* A tick has passed whose heartbeat failed (no row carries its time and no
\* heartbeat is in flight) and the client that ticked is still attached.
C23_Witness ==
    /\ seq = 4
    /\ \A c \in Clients : fetched[c].heartbeats = {} /\ mirror[c].mounted
    /\ \A p \in DOMAIN participants : participants[p].last_seen # 4

\* -------------------------------------------------------------------- C24
\* The participant row of client c's view has been deleted.
Removed(c) == mirror[c].mounted /\ mirror[c].me \notin DOMAIN participants

\* C24: a client whose participant row was removed ends up out of the
\* session view.
C24_RemovedClientLeaves ==
    \A c \in Clients : Removed(c) ~> ~mirror[c].mounted

\* -------------------------------------------------------------------- C25
\* No createSession under way holds participant p as its organizer.
Abandoned(p) ==
    \A c \in Clients :
        ~(call[c].op = "create" /\ call[c].pc \in {"session", "patch"}
          /\ call[c].organizer = p)

\* C25: a createSession whose step 1 fails creates no row; one whose step 2
\* or 3 fails throws, issues no further request, and leaves the organizer
\* row of step 1 in the table with session_id null, then and ever after.
C25_FailedCreateLeavesOrganizer ==
    [][/\ \A c \in Clients :
            /\ (call[c] = Idle /\ call'[c] = Threw("create", "organizer")) =>
                  storeVars' = storeVars
            /\ (/\ call[c].op = "create" /\ call[c].pc \in {"session", "patch"}
                /\ call'[c].pc = "threw") =>
                  /\ call'[c] = Threw("create", call[c].pc)
                  /\ storeVars' = storeVars
                  /\ call[c].organizer \in DOMAIN participants
                  /\ participants[call[c].organizer].session_id = NoId
            /\ (call[c].op = "create" /\ call[c].pc = "threw"
                /\ call'[c] # call[c]) =>
                  call'[c] = Idle /\ storeVars' = storeVars
       /\ \A p \in DOMAIN participants :
            (participants[p].session_id = NoId /\ Abandoned(p)) =>
               /\ p \in DOMAIN participants'
               /\ participants'[p] = participants[p]]_vars

\* Step 3 has failed: the session row is in the table and its organizer's
\* row still has session_id null.
C25_Witness ==
    \E c \in Clients :
        /\ call[c] = Threw("create", "patch")
        /\ \E s \in DOMAIN sessions :
              /\ sessions[s].organizer_id \in DOMAIN participants
              /\ participants[sessions[s].organizer_id].session_id = NoId
              /\ Abandoned(sessions[s].organizer_id)

\* -------------------------------------------------------------------- C26
\* joinSession has found a session / has thrown "Session not found".
Found(cl) == cl.op = "join" /\ cl.pc = "check"
SessionNotFound(cl) == cl = Threw("join", "not found")

\* Some session row has the upper-cased typed code as its room_code.
CodeExists(roomCode) ==
    \E s \in DOMAIN sessions : sessions[s].room_code = ToUpperCase(roomCode)

UniqueCodes ==
    \A s, t \in DOMAIN sessions :
        sessions[s].room_code = sessions[t].room_code => s = t

\* createSession of client c is about to insert a session row whose code
\* some session row already has.
Collides(c) ==
    /\ call[c].op = "create" /\ call[c].pc = "session"
    /\ SessionsByCode(sessions, call[c].roomCode) # {}

\* C27: room codes are unique in every state, no step changes the room
\* code of a session row, and the insert of a code already taken throws
\* and leaves the sessions table as it was.
C27_RoomCodesUniqueAndStable ==
    /\ []UniqueCodes
    /\ [][/\ \A s \in DOMAIN sessions \cap DOMAIN sessions' :
               sessions'[s].room_code = sessions[s].room_code
          /\ \A c \in Clients :
               (Collides(c) /\ call'[c] # call[c]) =>
                  /\ sessions' = sessions
                  /\ call'[c] = Threw("create", "session")]_vars

\* A createSession has been refused for its code: no request fails in this
\* specification and the store had room for the row.
C27_Witness ==
    \E c \in Clients :
        /\ call[c] = Threw("create", "session")
        /\ seq < MaxSeq
        /\ sessions # <<>>
        /\ \E s \in DOMAIN sessions : sessions[s].votes_revealed

\* -------------------------------------------------------------------- C28
\* The list with has_voted of every organizer row set to b.
WithOrganizerVoted(list, b) ==
    [i \in DOMAIN list |->
        IF list[i].is_organizer THEN [list[i] EXCEPT !.has_voted = b]
        ELSE list[i]]

\* C28: in every session view "all voted" is true exactly when every row of
\* the mirror that is no organizer has has_voted (true when there is no
\* such row), and it is the same whatever has_voted the organizer rows carry.
C28_AllVotedCountsNonOrganizers ==
    \A c \in Clients :
        mirror[c].mounted =>
           LET list == mirror[c].participants IN
           /\ allVoted(list) <=>
                 \A i \in DOMAIN list :
                    ~list[i].is_organizer => list[i].has_voted
           /\ \A b \in BOOLEAN : allVoted(WithOrganizerVoted(list, b)) = allVoted(list)

\* A view whose list holds an organizer that has not voted and a
\* participant that has: everyone has voted.
C28_Witness ==
    \E c \in Clients :
        /\ mirror[c].mounted
        /\ allVoted(mirror[c].participants)
        /\ \E i, j \in DOMAIN mirror[c].participants :
              /\ mirror[c].participants[i].is_organizer
              /\ ~mirror[c].participants[i].has_voted
              /\ ~mirror[c].participants[j].is_organizer

\* -------------------------------------------------------------------- C29
\* Each request of a reset under way can be applied whatever became of the
\* other one.
ResetHalvesIndependent ==
    \A c \in Clients :
        call[c].op = "reset" =>
           /\ call[c].session = "pending" =>
                 ENABLED ResetSessionUpdate(c, {TRUE})
           /\ call[c].participants = "pending" =>
                 ENABLED ResetParticipantsUpdate(c, {TRUE})

\* C29: the two updates of a reset are applied or fail each on its own: a
\* failed one writes nothing, the other one still writes its table, and
\* resetVotes throws when either failed; with the session update applied
\* and the participants update failed, the votes stay while votes_revealed
\* is false.
C29_ResetHalvesFailAlone ==
    /\ []ResetHalvesIndependent
    /\ [][\A c \in Clients :
            call[c].op = "reset" =>
               LET sid == call[c].sessionId IN
               /\ ResetSessionUpdate(c, {FALSE}) => storeVars' = storeVars
               /\ ResetParticipantsUpdate(c, {FALSE}) => storeVars' = storeVars
               /\ ResetSessionUpdate(c, {TRUE}) =>
                     /\ ~sessions'[sid].votes_revealed
                     /\ participants' = participants
               /\ ResetParticipantsUpdate(c, {TRUE}) =>
                     /\ \A p \in ParticipantsOf(participants', sid) :
                           ~participants'[p].has_voted /\ participants'[p].vote = NoVote
                     /\ sessions' = sessions
               /\ call'[c] = Idle =>
                     /\ ResetError(call[c]) # "none" <=>
                           "error" \in {call[c].session, call[c].participants}
                     /\ (/\ call[c].session = "ok"
                         /\ call[c].participants = "error"
                         /\ ~call[c].overtaken) =>
                           ~sessions[sid].votes_revealed]_vars

\* The session update of a reset has been applied and its participants
\* update has failed: the votes are hidden again and a vote is still there.
C29_Witness ==
    \E c \in Clients :
        /\ call[c].op = "reset"
        /\ call[c].session = "ok" /\ call[c].participants = "error"
        /\ ~sessions[call[c].sessionId].votes_revealed
        /\ \E p \in ParticipantsOf(participants, call[c].sessionId) :
              participants[p].has_voted

\* -------------------------------------------------------------------- C30
\* The vote the store holds for the participant of client c's view (none
\* when has_voted is false or the row is gone).
StoreVote(c) ==
    IF mirror[c].me \in DOMAIN participants /\ participants[mirror[c].me].has_voted
    THEN participants[mirror[c].me].vote
    ELSE NoVote

\* C30: with every notification handled and no request in flight, the card
\* a non-organizer's view shows as selected is its participant's vote in
\* the store.
C30_SelectedCardFollowsStore ==
    Quiet =>
       \A c \in Clients :
          (mirror[c].mounted /\ ~mirror[c].isOrganizer) =>
             mirror[c].selectedVote = StoreVote(c)

\* -------------------------------------------------------------------- C31
\* C31: the ordered story list of a session is a function of the store
\* state: a fetch of the stories of any session has one possible answer.
C31_StoryOrderIsFunctionOfStore ==
    \A sid \in DOMAIN sessions :
        Cardinality(StoryOrders(stories, StoriesOf(stories, sid))) = 1

\* -------------------------------------------------------------------- C32
\* C32: no two participant rows of one session carry the same name.
C32_NamesUniqueInSession ==
    \A p, q \in DOMAIN participants :
        (/\ participants[p].session_id # NoId
         /\ participants[p].session_id = participants[q].session_id
         /\ participants[p].name = participants[q].name) => p = q

\* -------------------------------------------------------------------- C33
\* No call is running and no notification of the session row is waiting.
AdvanceSettled ==
    \A c \in Clients : call[c] = Idle /\ feed[c].sessions = <<>>

\* C33: with an advance completed and every notification of the session
\* row handled, every session view shows as current the story the session
\* row names.
C33_ViewsShowCurrentStory ==
    \A c \in Clients :
        (/\ AdvanceSettled
         /\ InSession(c)
         /\ sessions[mirror[c].sessionId].current_story_id # NoId) =>
           currentStoryId(c) = sessions[mirror[c].sessionId].current_story_id

\* -------------------------------------------------------------------- C34
\* C34: the current_story_id of every session is null or the id of a story
\* of that session.
C34_CurrentStoryExists ==
    \A sid \in DOMAIN sessions :
        \/ sessions[sid].current_story_id = NoId
        \/ /\ sessions[sid].current_story_id \in DOMAIN stories
           /\ stories[sessions[sid].current_story_id].session_id = sid

\* -------------------------------------------------------------------- C35
\* A row once deleted does not come back: the ids given out so far that
\* are not in the table are not in it after the step, and a removal that
\* is applied takes the row out.
StaysRemoved ==
    /\ \A p \in 1..seq : p \notin DOMAIN participants => p \notin DOMAIN participants'
    /\ \A c \in Clients :
          (call[c].op = "remove" /\ RemoveDelete(c, {TRUE})) =>
             call[c].participantId \notin DOMAIN participants'

\* The step is a request of client c at the store.
RequestOf(c) ==
    \/ HeartbeatUpdate(c, NoFailure)
    \/ VoteUpdate(c, NoFailure)
    \/ AdvanceUpdate(c, NoFailure)
    \/ ResetSessionUpdate(c, NoFailure)
    \/ ResetParticipantsUpdate(c, NoFailure)

\* C35 as stated: a removed row never reappears and no request of the
\* removed participant's client changes a row.
C35_RemovedClientChangesNothing ==
    [][/\ StaysRemoved
       /\ \A c \in Clients :
             (Removed(c) /\ RequestOf(c)) =>
                sessions' = sessions /\ participants' = participants]_vars

\* C35, amended: a removed row never reappears, and the heartbeats and
\* votes issued for its id match no row: they change nothing in the store,
\* notify nobody and end like any other.
C35_RemovedIdChangesNothing ==
    [][/\ StaysRemoved
       /\ \A c \in Clients :
             /\ (/\ call[c].op = "vote"
                 /\ call[c].participantId \notin DOMAIN participants
                 /\ VoteUpdate(c, NoFailure)) =>
                   storeVars' = storeVars /\ feed' = feed /\ call'[c] = Idle
             /\ (/\ \A hb \in fetched[c].heartbeats : hb.id \notin DOMAIN participants
                 /\ HeartbeatUpdate(c, NoFailure)) =>
                   storeVars' = storeVars /\ feed' = feed]_vars

\* The row of a client is gone while a vote and a heartbeat of that
\* client for its id are on their way to the store.
C35_Witness ==
    \E c \in Clients :
        /\ Removed(c)
        /\ call[c].op = "vote"
        /\ call[c].participantId \notin DOMAIN participants
        /\ \E hb \in fetched[c].heartbeats : hb.id \notin DOMAIN participants

\* -------------------------------------------------------------------- C36
\* The organizer_id of session sid names a participant row that is an
\* organizer of that session.
OrganizerInPlace(ss, ps, sid) ==
    /\ ss[sid].organizer_id \in DOMAIN ps
    /\ ps[ss[sid].organizer_id].is_organizer
    /\ ps[ss[sid].organizer_id].session_id = sid

\* C36: when createSession returns, the organizer_id of its session names
\* a row with is_organizer = true and that session's id, and no later step
\* ends that.
C36_OrganizerStays ==
    [][/\ \A c \in Clients :
             (call[c].op = "create" /\ call[c].pc = "patch"
              /\ call'[c].pc = "returned") =>
                OrganizerInPlace(sessions', participants', call'[c].session)
       /\ \A sid \in DOMAIN sessions :
             OrganizerInPlace(sessions, participants, sid) =>
                /\ sid \in DOMAIN sessions'
                /\ OrganizerInPlace(sessions', participants', sid)]_vars

\* A participant has been removed from a session whose organizer is in
\* place.
C36_Witness ==
    \E c \in Clients :
        /\ Removed(c)
        /\ mirror[c].sessionId \in DOMAIN sessions
        /\ OrganizerInPlace(sessions, participants, mirror[c].sessionId)

\* -------------------------------------------------------------------- C37
\* C37: every participant row with is_organizer = true has has_voted =
\* false and no vote.
C37_OrganizerNeverVotes ==
    \A p \in DOMAIN participants :
        participants[p].is_organizer =>
           ~participants[p].has_voted /\ participants[p].vote = NoVote

\* The organizer's view is on screen with the votes not revealed, where a
\* click on a card is possible, and the other participant has voted.
C37_Witness ==
    \E c \in Clients :
        /\ InSession(c) /\ mirror[c].isOrganizer /\ ~votesRevealed(c)
        /\ call[c] = Idle
        /\ \E p \in ParticipantsOf(participants, mirror[c].sessionId) :
              participants[p].has_voted

\* -------------------------------------------------------------------- C38
\* C38: in every session view with a non-empty story list the local
\* current-story index is a position of the list.
C38_IndexInList ==
    \A c \in Clients :
        (mirror[c].mounted /\ mirror[c].stories # <<>>) =>
           /\ 0 <= mirror[c].currentStoryIndex
           /\ mirror[c].currentStoryIndex < Len(mirror[c].stories)

====
